---- MODULE Spec2Model ----
(***************************************************************************)
(* Model of the parameterized selector cache (createParameterizedSelector) *)
(* of selectorUtils: the key encoder getCacheKeyForParams, the entry store *)
(* selectorCache with its LRU list keyUsage, expiry, eviction, the inner   *)
(* memoized selector of every entry, and the cache management methods.     *)
(***************************************************************************)
EXTENDS Integers, Sequences, FiniteSets, TLC

VARIABLES
    maxSize,            \* option maxSize of this factory
    expireAfter,        \* option expireAfter; 0 stands for "not set" (falsy)
    trackPerformance,   \* option trackPerformance
    kind,               \* which wrapped selector this factory was created with
    stateItems,         \* the items array of every state object (state.items)
    selectors,          \* the factories a combined selector calls, in order
    tracked,            \* the closure of a createTrackedSelector selector
    selectorCache,      \* Map<string, entry>: a function on the live keys
    mapOrder,           \* the iteration (insertion) order of selectorCache's keys
    keyUsage,           \* string[]: LRU order, most recently used last
    totalHits,
    totalMisses,
    totalExecutionTime,
    now,                \* the clock read by dateUtils.create()
    recency,            \* history: live keys ordered by their latest call
    last,               \* history: what the latest operation did and returned
    env,                \* the EnvironmentService instance and its callers' promises
    retry               \* one invocation of fetchWithRetry

vars == <<maxSize, expireAfter, trackPerformance, kind, stateItems, selectors,
          tracked,
          selectorCache, mapOrder, keyUsage, totalHits, totalMisses,
          totalExecutionTime, now, recency, last, env, retry>>

service == <<env, retry>>

config == <<maxSize, expireAfter, trackPerformance, kind>>

(***************************************************************************)
(* Bounds of the model.                                                    *)
(***************************************************************************)
MaxCalls == 2
MaxMaxSize == 2
MaxExpire == 1
MaxLRUCalls == 6
MaxInvCalls == 3
MaxInvSize == 3
MaxPerfCalls == 3
MaxBuilderCalls == 2
MaxTrackedCalls == 4
MaxKeyCalls == 4
MaxStepCalls == 4
MaxFallbackCalls == 3
MaxDateCalls == 3
MaxPathCalls == 2
MaxCapacityCalls == 21
MaxIsolationCalls == 2
MaxIsolationSize == 1
MaxCapacityHits == 1
MaxPageCalls == 1
MaxPage == 5
MaxPageSize == 4
MaxMinId == 4
MaxTime == MaxExpire + 1

(***************************************************************************)
(* Argument values: a closed tagged variant of what a caller can pass.     *)
(*   n   the numeric value (number, bigint) or the value of every property *)
(*   s   the text (string), the ISO text (date) or the name (function)     *)
(*   ks  the top-level property names in insertion order (object)          *)
(*   src the characters of a function's source text, or the values of a    *)
(*       Map's entries in insertion order (ks holds their keys)            *)
(***************************************************************************)
Val(t, n, s, ks, src) == [t |-> t, n |-> n, s |-> s, ks |-> ks, src |-> src]

Num(n) == Val("number", n, "", <<>>, <<>>)
Str(s) == Val("string", 0, s, <<>>, <<>>)
Null == Val("null", 0, "", <<>>, <<>>)
Undefined == Val("undefined", 0, "", <<>>, <<>>)
BoolV(b) == Val("boolean", IF b THEN 1 ELSE 0, "", <<>>, <<>>)
NaNV == Val("nan", 0, "", <<>>, <<>>)
InfinityV == Val("infinity", 0, "", <<>>, <<>>)
BigIntV(n) == Val("bigint", n, "", <<>>, <<>>)
DateV(iso) == Val("date", 0, iso, <<>>, <<>>)
FnV(name, src) == Val("function", 0, name, <<>>, src)
ObjV(ks, n) == Val("object", n, "", ks, <<>>)
MapV(ks, values) == Val("map", 0, "", ks, values)
CircV(ks) == Val("circular", 0, "", ks, <<>>)

RECURSIVE Join(_, _)
Join(parts, sep) ==
    IF parts = <<>> THEN ""
    ELSE IF Len(parts) = 1 THEN parts[1]
    ELSE Join(SubSeq(parts, 1, Len(parts) \div 2), sep) \o sep
            \o Join(SubSeq(parts, Len(parts) \div 2 + 1, Len(parts)), sep)

Quote(s) == "\"" \o s \o "\""

Max(a, b) == IF a > b THEN a ELSE b

Min(a, b) == IF a < b THEN a ELSE b

WholeSource(seq, n) == seq

Slice(seq, n) == SubSeq(seq, 1, IF Len(seq) < n THEN Len(seq) ELSE n)

SrcPrefixLen == 100

FnName(v) == IF v.s = "" THEN "anonymous" ELSE v.s

debugLabel == "ParameterizedSelector"

(***************************************************************************)
(* JSON.stringify(params, replacer).  JSON.stringify throws a TypeError on *)
(* a BigInt and on a circular structure.  A Date is turned into its ISO    *)
(* text by Date.prototype.toJSON before the replacer sees it; NaN,         *)
(* Infinity and an undefined array element are written as null.            *)
(***************************************************************************)
StringifyThrows(v) == v.t \in {"bigint", "circular"}

ObjText(v) ==
    "{" \o Join([i \in 1..Len(v.ks) |-> Quote(v.ks[i]) \o ":" \o ToString(v.n)], ",") \o "}"

MapText(v) ==
    "[" \o Join(<<Quote("__Map")>> \o
                [i \in 1..Len(v.ks) |->
                    "[" \o Quote(v.ks[i]) \o "," \o ToString(v.src[i]) \o "]"],
                ",") \o "]"

StringifyValue(v) ==
    CASE v.t = "number" -> ToString(v.n)
      [] v.t = "boolean" -> IF v.n = 1 THEN "true" ELSE "false"
      [] v.t = "string" -> Quote(v.s)
      [] v.t \in {"null", "undefined", "nan", "infinity"} -> "null"
      [] v.t = "function" ->
            Quote("__fn_" \o FnName(v) \o "_" \o Join(Slice(v.src, SrcPrefixLen), ""))
      [] v.t = "date" -> Quote(v.s)
      [] v.t = "object" -> ObjText(v)
      [] v.t = "map" -> MapText(v)
      [] OTHER -> ""

JSONStringify(params) ==
    "[" \o Join([i \in 1..Len(params) |-> StringifyValue(params[i])], ",") \o "]"

(***************************************************************************)
(* The fallback of getCacheKeyForParams (the catch block).                 *)
(***************************************************************************)
FallbackValue(v) ==
    CASE v.t = "null" -> "null"
      [] v.t = "undefined" -> "undefined"
      [] v.t = "function" -> "fn_" \o FnName(v)
      [] v.t \in {"object", "circular", "date"} -> "obj_" \o Join(v.ks, "_")
      [] v.t = "map" -> "obj_"
      [] v.t = "nan" -> "NaN"
      [] v.t = "infinity" -> "Infinity"
      [] v.t = "string" -> v.s
      [] v.t = "boolean" -> IF v.n = 1 THEN "true" ELSE "false"
      [] OTHER -> ToString(v.n)

FallbackKey(params) ==
    Join([i \in 1..Len(params) |-> FallbackValue(params[i])], "|")

SentryReport ==
    [message |-> "Failed to create cache key for parameterized selector",
     selectorLabel |-> debugLabel]

(***************************************************************************)
(* getCacheKeyForParams: the key, the reports made to Sentry, and whether  *)
(* an exception leaves the function.                                       *)
(***************************************************************************)
UnguardedCacheKey(params) ==
    IF \E i \in 1..Len(params) : StringifyThrows(params[i])
    THEN [key |-> "", reports |-> <<>>, raised |-> TRUE]
    ELSE [key |-> JSONStringify(params), reports |-> <<>>, raised |-> FALSE]

getCacheKeyForParams(params) ==
    IF \E i \in 1..Len(params) : StringifyThrows(params[i])
    THEN [key |-> FallbackKey(params), reports |-> <<SentryReport>>, raised |-> FALSE]
    ELSE [key |-> JSONStringify(params), reports |-> <<>>, raised |-> FALSE]

(***************************************************************************)
(* The wrapped selector, a pure function of the state and the arguments:   *)
(* it dereferences its argument, so it throws on null and undefined, and   *)
(* state "s2" lacks what a numeric argument looks up.  Its result names    *)
(* the state and the arguments it was computed from.                       *)
(***************************************************************************)
States == {"s1", "s2"}

NoResult == [state |-> "", params |-> <<>>]

GenericThrows(state, params) ==
    \/ params[1].t \in {"null", "undefined"}
    \/ state = "s2" /\ params[1].t = "number"

GenericSelector(state, params) == [state |-> state, params |-> params]

(***************************************************************************)
(* The argument tuples the model calls the factory with.                   *)
(***************************************************************************)
ParamsUniverse ==
    { <<Num(2)>>, <<Null>>, <<NaNV>>, <<CircV(<<"b", "a">>)>> }

LRUParams == { <<Num(1)>>, <<Num(2)>>, <<Num(3)>>, <<Num(4)>> }

(***************************************************************************)
(* Function and Map arguments: testFn and testMap of the test, a function  *)
(* with the same name whose source differs only after SrcPrefixLen         *)
(* characters, one with another name, and a Map with the entries in the    *)
(* other order.                                                            *)
(***************************************************************************)
LongSource(tail) == [i \in 1..SrcPrefixLen + 1 |-> IF i <= SrcPrefixLen THEN "x" ELSE tail]

testMap == MapV(<<"a", "b">>, <<1, 2>>)

FnMapParams ==
    { << FnV("testFn", <<"(", ")", "=", ">", "{", "}">>), testMap >>,
      << FnV("longFn", LongSource("a")), testMap >>,
      << FnV("longFn", LongSource("b")), testMap >>,
      << FnV("otherFn", LongSource("a")), testMap >>,
      << FnV("longFn", LongSource("a")), MapV(<<"b", "a">>, <<2, 1>>) >> }

PerfParams == { <<Num(1)>>, <<Num(2)>>, <<Null>> }

PerfSizes == {1, 2}

KeySizes == {2, 10}

StepParams == { <<Num(1)>>, <<Num(2)>>, <<Null>> }

StepSizes == {2, 3}

InvParams == { <<Num(1)>>, <<Num(2)>>, <<Num(3)>>, <<CircV(<<"b", "a">>)>> }

(***************************************************************************)
(* Argument tuples JSON.stringify throws on: a lone BigInt, circular       *)
(* objects with the same keys inserted in either order, and tuples that    *)
(* hold a BigInt next to an object or to null; and one plain tuple.        *)
(***************************************************************************)
FallbackParams ==
    { <<BigIntV(2)>>, <<CircV(<<"b", "a">>)>>, <<CircV(<<"a", "b">>)>>,
      <<ObjV(<<"a">>, 1), BigIntV(1)>>, <<Null, BigIntV(1)>>, <<Num(2)>> }

FallbackSizes == {3, 10}

(***************************************************************************)
(* Two Dates, and the strings that are their ISO-8601 texts.               *)
(***************************************************************************)
IsoTexts == { "2024-01-01T00:00:00.000Z", "2024-06-30T12:00:00.000Z" }

DateParams == { <<DateV(iso)>> : iso \in IsoTexts } \cup { <<Str(iso)>> : iso \in IsoTexts }

DateSizes == {2, 10}

AllParams ==
    ParamsUniverse \cup LRUParams \cup InvParams \cup PerfParams \cup FallbackParams
        \cup DateParams

(***************************************************************************)
(* A cache entry.  memo is the state of the entry's createSelector         *)
(* instance, which closes over params and remembers the latest state it    *)
(* was called with and the result computed for it.                         *)
(***************************************************************************)
NoMemo == [has |-> FALSE, state |-> "", result |-> NoResult]

UncountedEntry(params, t) ==
    [params |-> params, memo |-> NoMemo, lastUsed |-> t, created |-> t,
     hits |-> 0, misses |-> 0, executionTime |-> 0]

NewEntry(params, t) ==
    [params |-> params, memo |-> NoMemo, lastUsed |-> t, created |-> t,
     hits |-> 0, misses |-> 1, executionTime |-> 0]

DoubleHit(entry, t) == [entry EXCEPT !.lastUsed = t, !.hits = @ + 2]

StaleHit(entry, t) == [entry EXCEPT !.hits = @ + 1]

HitEntry(entry, t) == [entry EXCEPT !.lastUsed = t, !.hits = @ + 1]

RemoveKey(seq, key) == SelectSeq(seq, LAMBDA k : k # key)

AppendKey(usage, key) == Append(usage, key)

KeepPosition(usage, key) ==
    IF \E i \in 1..Len(usage) : usage[i] = key THEN usage ELSE Append(usage, key)

TouchKey(usage, key) == Append(RemoveKey(usage, key), key)

ExpiredSinceLastUse(entry, t) ==
    expireAfter # 0 /\ t - entry.lastUsed > expireAfter

ExpiredAtOrAfter(entry, t) ==
    expireAfter # 0 /\ t - entry.created >= expireAfter

IsExpired(entry, t) ==
    expireAfter # 0 /\ t - entry.created > expireAfter

KeepStale(cache, key) == cache

Without(cache, key) == [k \in DOMAIN cache \ {key} |-> cache[k]]

With(cache, key, entry) ==
    [k \in DOMAIN cache \cup {key} |-> IF k = key THEN entry ELSE cache[k]]

(***************************************************************************)
(* The eviction of getOrCreateCacheEntry after an insert.                  *)
(***************************************************************************)
NeverEvict(cache, usage) == [cache |-> cache, usage |-> usage, evicted |-> ""]

EvictIfOver(cache, usage) ==
    IF Cardinality(DOMAIN cache) > maxSize /\ usage # <<>>
    THEN LET oldestKey == Head(usage) IN
         [cache |-> IF oldestKey # "" THEN Without(cache, oldestKey) ELSE cache,
          usage |-> Tail(usage),
          evicted |-> oldestKey]
    ELSE [cache |-> cache, usage |-> usage, evicted |-> ""]

(***************************************************************************)
(* getOrCreateCacheEntry: the store, the LRU list and the counters after   *)
(* the lookup of key for params at time t.                                 *)
(***************************************************************************)
getOrCreateCacheEntry(params, key, t) ==
    LET usage1 == TouchKey(keyUsage, key)
        isExpired == key \in DOMAIN selectorCache /\ IsExpired(selectorCache[key], t)
        cache1 == IF isExpired THEN Without(selectorCache, key) ELSE selectorCache
    IN  IF key \notin DOMAIN cache1
        THEN LET ev == EvictIfOver(With(cache1, key, NewEntry(params, t)), usage1) IN
             [cache |-> ev.cache, usage |-> ev.usage, entry |-> NewEntry(params, t),
              hit |-> FALSE, expired |-> isExpired, evicted |-> ev.evicted,
              hits |-> totalHits, misses |-> totalMisses + 1]
        ELSE [cache |-> With(cache1, key, HitEntry(cache1[key], t)), usage |-> usage1,
              entry |-> HitEntry(cache1[key], t),
              hit |-> TRUE, expired |-> FALSE, evicted |-> "",
              hits |-> totalHits + 1, misses |-> totalMisses]

(***************************************************************************)
(* The state objects of the derived selectors: their items arrays.  An     *)
(* array is a reference and its elements; a state's array is referred to   *)
(* by the state that holds it, an array built by a selector is "new".      *)
(***************************************************************************)
Item(id, value) == [id |-> id, value |-> value]

MockItems == << Item(1, "one"), Item(2, "two"), Item(3, "three") >>

BuilderStates == {"s1", "s2", "s3"}

ItemsOf(state) ==
    CASE state = "s1" -> MockItems
      [] state = "s2" -> <<>>
      [] OTHER -> << Item(3, "three"), Item(1, "one") >>

ArrayV(ref, elems) == [ref |-> ref, elems |-> elems]

arraySelector(state) == ArrayV(state, stateItems[state])

Arg(params, i) == IF i <= Len(params) THEN params[i] ELSE Undefined

(***************************************************************************)
(* createFilteredSelector: array.filter(item => predicate(item, state,     *)
(* ...params)) with the predicate item.id >= minId.  n >= v is false when  *)
(* v is undefined, NaN or (n being finite) Infinity.                       *)
(***************************************************************************)
AtLeast(n, v) ==
    CASE v.t \in {"number", "boolean"} -> n >= v.n
      [] v.t = "null" -> n >= 0
      [] OTHER -> FALSE

predicate(item, state, params) == AtLeast(item.id, Arg(params, 1))

RejectSelect(state, params) ==
    ArrayV("new", SelectSeq(arraySelector(state).elems,
                            LAMBDA item : ~predicate(item, state, params)))

FilterSelect(state, params) ==
    ArrayV("new", SelectSeq(arraySelector(state).elems,
                            LAMBDA item : predicate(item, state, params)))

(***************************************************************************)
(* createSortSelector: [...array].sort((a, b) => compareFn(a, b, state,    *)
(* ...params)).  Array.prototype.sort is stable.  "byValue" is the         *)
(* comparator with the reverse flag, "byId" is (a, b) => a.id - b.id.      *)
(***************************************************************************)
Truthy(v) ==
    CASE v.t \in {"number", "boolean"} -> v.n # 0
      [] v.t = "string" -> v.s # ""
      [] v.t \in {"null", "undefined", "nan"} -> FALSE
      [] OTHER -> TRUE

LocaleRank(value) ==
    CASE value = "one" -> 1
      [] value = "three" -> 2
      [] value = "two" -> 3
      [] OTHER -> 0

localeCompare(a, b) == LocaleRank(a) - LocaleRank(b)

compareFn(c, a, b, state, params) ==
    IF c = "byId" THEN a.id - b.id
    ELSE IF Truthy(Arg(params, 1)) THEN localeCompare(b.value, a.value)
    ELSE localeCompare(a.value, b.value)

RECURSIVE InsertSorted(_, _, _, _, _)
InsertSorted(c, x, sorted, state, params) ==
    IF sorted = <<>> THEN <<x>>
    ELSE IF compareFn(c, Head(sorted), x, state, params) > 0 THEN <<x>> \o sorted
    ELSE <<Head(sorted)>> \o InsertSorted(c, x, Tail(sorted), state, params)

RECURSIVE StableSort(_, _, _, _)
StableSort(c, elems, state, params) ==
    IF elems = <<>> THEN <<>>
    ELSE InsertSorted(c, elems[Len(elems)],
                      StableSort(c, SubSeq(elems, 1, Len(elems) - 1), state, params),
                      state, params)

SortSource(c, array, state, params) ==
    [source |-> StableSort(c, array.elems, state, params),
     result |-> ArrayV(array.ref, StableSort(c, array.elems, state, params))]

SortCopy(c, array, state, params) ==
    [source |-> array.elems,
     result |-> ArrayV("new", StableSort(c, array.elems, state, params))]

SortSelect(c, state, params) == SortCopy(c, arraySelector(state), state, params)

(***************************************************************************)
(* createPaginationSelector, for integer page and pageSize >= 1.           *)
(***************************************************************************)
DefaultPage == 0
DefaultPageSize == 10

FloorDiv(n, d) == n \div d

CeilDiv(n, d) == (n + d - 1) \div d

ArraySlice(elems, start, end) == SubSeq(elems, start + 1, Min(end, Len(elems)))

UnclampedPage(page, totalPages) == Max(0, page)

NormalizedPage(page, totalPages) == Max(0, Min(page, totalPages - 1))

PaginationSelect(state, params) ==
    LET page == IF Arg(params, 1).t = "undefined" THEN DefaultPage ELSE Arg(params, 1).n
        pageSize == IF Arg(params, 2).t = "undefined" THEN DefaultPageSize
                    ELSE Arg(params, 2).n
        array == arraySelector(state)
        totalItems == Len(array.elems)
        totalPages == CeilDiv(totalItems, pageSize)
        normalizedPage == NormalizedPage(page, totalPages)
        start == normalizedPage * pageSize
        end == start + pageSize
    IN  [items |-> ArrayV("new", ArraySlice(array.elems, start, end)),
         pagination |-> [totalItems |-> totalItems,
                         totalPages |-> totalPages,
                         currentPage |-> normalizedPage,
                         pageSize |-> pageSize,
                         hasNextPage |-> normalizedPage < totalPages - 1,
                         hasPreviousPage |-> normalizedPage > 0]]

(***************************************************************************)
(* createPathSelector: getPath reads state.nested.data.count and transform *)
(* writes `Count: ${value}`, as in the repository's test; both values also *)
(* record the state and the arguments the function was called with.        *)
(* "path" is built with the transform, "pathOnly" without it.              *)
(***************************************************************************)
CountOf(state) ==
    CASE state = "s1" -> 42
      [] state = "s2" -> 0
      [] OTHER -> 7

getPath(state, params) == [count |-> CountOf(state), state |-> state, args |-> params]

transform(value, state, params) ==
    [text |-> "Count: " \o ToString(value.count), value |-> value,
     state |-> state, args |-> params]

TransformValueOnly(state, params, hasTransform) ==
    IF hasTransform THEN transform(getPath(state, <<>>), state, <<>>)
    ELSE getPath(state, <<>>)

PathSelect(state, params, hasTransform) ==
    IF hasTransform THEN transform(getPath(state, params), state, params)
    ELSE getPath(state, params)

(***************************************************************************)
(* The wrapped selectors that call no other factory.                       *)
(***************************************************************************)
LeafThrows(k, state, params) == k = "generic" /\ GenericThrows(state, params)

LeafSelector(k, state, params) ==
    CASE k = "filter" -> FilterSelect(state, params)
      [] k = "path" -> PathSelect(state, params, TRUE)
      [] k = "pathOnly" -> PathSelect(state, params, FALSE)
      [] k = "sort" -> SortSelect("byValue", state, params).result
      [] k = "sortById" -> SortSelect("byId", state, params).result
      [] k = "pagination" -> PaginationSelect(state, params)
      [] OTHER -> GenericSelector(state, params)

(***************************************************************************)
(* A factory called from inside a combined selector: its own store, LRU    *)
(* list and counters, and the calls it has received.  The builders set no  *)
(* expireAfter and no trackPerformance.                                    *)
(***************************************************************************)
DefaultMaxSize == 10
PathMaxSize == 20
FilteredMaxSize == 15
SortMaxSize == 10
PaginationMaxSize == 20
CombinedMaxSize == 10

NewFactory(k, size) ==
    [wrapped |-> k, maxSize |-> size,
     selectorCache |-> [key \in {} |-> NewEntry(<<>>, 0)],
     keyUsage |-> <<>>, totalHits |-> 0, totalMisses |-> 0, calls |-> <<>>]

MemoizedResult(k, entry, state) ==
    IF entry.memo.has /\ entry.memo.state = state
    THEN entry.memo.result
    ELSE LeafSelector(k, state, entry.params)

Remember(entry, state, result) ==
    [entry EXCEPT !.memo = [has |-> TRUE, state |-> state, result |-> result]]

EvictOldest(cache, usage, size, hit) ==
    IF ~hit /\ Cardinality(DOMAIN cache) > size
    THEN [cache |-> IF Head(usage) # "" THEN Without(cache, Head(usage)) ELSE cache,
          usage |-> Tail(usage)]
    ELSE [cache |-> cache, usage |-> usage]

FactoryReturn(f, state, params, key, hit, entry, kept, result) ==
    [result |-> result,
     factory |-> [f EXCEPT
                    !.selectorCache =
                        IF key \in DOMAIN kept.cache
                        THEN With(kept.cache, key, Remember(entry, state, result))
                        ELSE kept.cache,
                    !.keyUsage = kept.usage,
                    !.totalHits = IF hit THEN @ + 1 ELSE @,
                    !.totalMisses = IF hit THEN @ ELSE @ + 1,
                    !.calls = Append(@, [state |-> state, params |-> params])]]

FactoryLookup(f, state, params, key, hit, entry) ==
    FactoryReturn(f, state, params, key, hit, entry,
                  EvictOldest(With(f.selectorCache, key, entry),
                              TouchKey(f.keyUsage, key), f.maxSize, hit),
                  MemoizedResult(f.wrapped, entry, state))

FactoryCallWithKey(f, state, params, t, key) ==
    FactoryLookup(f, state, params, key, key \in DOMAIN f.selectorCache,
                  IF key \in DOMAIN f.selectorCache
                  THEN HitEntry(f.selectorCache[key], t)
                  ELSE NewEntry(params, t))

FactoryCall(f, state, params, t) ==
    FactoryCallWithKey(f, state, params, t, getCacheKeyForParams(params).key)

(***************************************************************************)
(* combineParameterizedSelectors: selectors.map(selector => selector(      *)
(* state, ...params)), then combiner(...results), with the combiner        *)
(* (filtered, sorted) => ({filtered: filtered.length, sorted: ids}).       *)
(***************************************************************************)
combiner(filtered, sorted) ==
    [filtered |-> Len(filtered.elems),
     sorted |-> [i \in 1..Len(sorted.elems) |-> sorted.elems[i].id]]

Combined(r1, r2) ==
    [result |-> combiner(r1.result, r2.result),
     selectors |-> <<r1.factory, r2.factory>>]

CombineWithoutArgs(state, params) ==
    Combined(FactoryCall(selectors[1], state, <<>>, now),
             FactoryCall(selectors[2], state, <<>>, now))

CombineRun(state, params) ==
    Combined(FactoryCall(selectors[1], state, params, now),
             FactoryCall(selectors[2], state, params, now))

(***************************************************************************)
(* The wrapped selector of this factory, and what running it leaves in     *)
(* the state's array and in the factories it calls.                        *)
(***************************************************************************)
SelectorThrows(state, params) == LeafThrows(kind, state, params)

selector(state, params) ==
    IF kind = "combine" THEN CombineRun(state, params).result
    ELSE LeafSelector(kind, state, params)

ItemsAfter(state, params) ==
    IF kind = "sort"
    THEN [stateItems EXCEPT ![state] = SortSelect("byValue", state, params).source]
    ELSE stateItems

SelectorsAfter(state, params) ==
    IF kind = "combine" THEN CombineRun(state, params).selectors ELSE selectors

(***************************************************************************)
(* cacheEntry.selector(state): the entry's memoized selector.  It runs the *)
(* wrapped selector unless called with the state it was last called with;  *)
(* an exception of the wrapped selector leaves it as it was.               *)
(***************************************************************************)
ForgetfulSelector(entry, state) ==
    IF SelectorThrows(state, entry.params)
    THEN [threw |-> TRUE, result |-> NoResult, ran |-> TRUE, memo |-> entry.memo]
    ELSE [threw |-> FALSE, result |-> selector(state, entry.params), ran |-> TRUE,
          memo |-> [has |-> TRUE, state |-> state,
                    result |-> selector(state, entry.params)]]

InnerSelector(entry, state) ==
    IF entry.memo.has /\ entry.memo.state = state
    THEN [threw |-> FALSE, result |-> entry.memo.result, ran |-> FALSE,
          memo |-> entry.memo]
    ELSE IF SelectorThrows(state, entry.params)
    THEN [threw |-> TRUE, result |-> NoResult, ran |-> TRUE, memo |-> entry.memo]
    ELSE [threw |-> FALSE, result |-> selector(state, entry.params), ran |-> TRUE,
          memo |-> [has |-> TRUE, state |-> state,
                    result |-> selector(state, entry.params)]]

(***************************************************************************)
(* computeResult: the entry and the total after the performance tracking   *)
(* that follows a returning inner selector; performance.now() reads the    *)
(* model's clock.                                                          *)
(***************************************************************************)
TrackedEntry(entry, memo, t) ==
    IF trackPerformance
    THEN [entry EXCEPT !.memo = memo, !.executionTime = @ + (t - @)]
    ELSE [entry EXCEPT !.memo = memo]

LatestDuration(entry, t) ==
    IF trackPerformance
    THEN t - entry.executionTime
    ELSE totalExecutionTime

TrackedTotal(entry, t) ==
    IF trackPerformance
    THEN totalExecutionTime + (t - entry.executionTime)
    ELSE totalExecutionTime

(***************************************************************************)
(* JSON.parse(key), as invalidateCache uses it: the inverse of the JSON    *)
(* text on the documents the keys of the model can denote.  A document is  *)
(* an array (arr) of items or a bare value (the one item).                 *)
(***************************************************************************)
JsonOf(v) ==
    CASE v.t \in {"null", "undefined", "nan", "infinity"} -> Null
      [] v.t = "function" ->
            Str("__fn_" \o FnName(v) \o "_" \o Join(Slice(v.src, SrcPrefixLen), ""))
      [] v.t = "date" -> Str(v.s)
      [] OTHER -> v

JsonDocs ==
    { [arr |-> TRUE, items |-> [i \in 1..Len(p) |-> JsonOf(p[i])]] :
        p \in { q \in AllParams : \A i \in 1..Len(q) : ~StringifyThrows(q[i]) } }
    \cup
    { [arr |-> FALSE, items |-> <<Num(p[1].n)>>] :
        p \in { q \in AllParams : Len(q) = 1 /\ q[1].t = "bigint" } }

JSONText(doc) ==
    IF doc.arr THEN JSONStringify(doc.items) ELSE StringifyValue(doc.items[1])

NoDoc == [arr |-> FALSE, items |-> <<>>]

JSONParse(key) ==
    LET docs == { d \in JsonDocs : JSONText(d) = key } IN
    IF docs = {} THEN [ok |-> FALSE, doc |-> NoDoc]
    ELSE [ok |-> TRUE, doc |-> CHOOSE d \in docs : TRUE]

(***************************************************************************)
(* The predicates the model passes to invalidateCache, applied to a parsed *)
(* key: "gt1" is params => params[0] > 1, "all" is () => true, "throws"    *)
(* always throws, and "throwsOnOne" throws when params[0] === 1 and        *)
(* returns true otherwise.                                                 *)
(***************************************************************************)
Predicates == {"gt1", "all", "throws"}

ThrowingPredicates == {"throws", "throwsOnOne"}

NumberOfText(s) ==
    IF \E n \in 0..9 : ToString(n) = s
    THEN [isNumber |-> TRUE, n |-> CHOOSE n \in 0..9 : ToString(n) = s]
    ELSE [isNumber |-> FALSE, n |-> 0]

GreaterThanOne(v) ==
    CASE v.t = "number" -> v.n > 1
      [] v.t = "string" -> NumberOfText(v.s).isNumber /\ NumberOfText(v.s).n > 1
      [] OTHER -> FALSE

ThrowRemoves(pred, doc) == "true"

PredicateResult(pred, doc) ==
    CASE pred = "all" -> "true"
      [] pred = "throws" -> "throw"
      [] pred = "throwsOnOne" ->
            IF doc.arr /\ doc.items # <<>> /\ doc.items[1] = Num(1)
            THEN "throw" ELSE "true"
      [] OTHER ->
            IF doc.arr
            THEN IF doc.items # <<>> /\ GreaterThanOne(doc.items[1])
                 THEN "true" ELSE "false"
            ELSE IF doc.items[1].t = "null" THEN "throw" ELSE "false"

KeysToRemove(cache, pred) ==
    { k \in DOMAIN cache :
        JSONParse(k).ok /\ PredicateResult(pred, JSONParse(k).doc) = "true" }

KeepUsage(usage, keys) == usage

RemoveFromUsage(usage, keys) == SelectSeq(usage, LAMBDA k : k \notin keys)

(***************************************************************************)
(* getStats(): the record it returns.  A quotient is kept exact, as its    *)
(* numerator and denominator; entries follows the Map's iteration order.   *)
(***************************************************************************)
Ratio(n, d) == [num |-> n, den |-> d]

RawCallCount(hits, misses) == hits + misses

CallCountOrOne(hits, misses) == Max(1, hits + misses)

EntryStats(key, entry, t) ==
    [key |-> key, hits |-> entry.hits, misses |-> entry.misses,
     lastUsed |-> entry.lastUsed, created |-> entry.created,
     executionTime |-> entry.executionTime, age |-> t - entry.created]

NoStats ==
    [cacheSize |-> 0, maxSize |-> 0, totalHits |-> 0, totalMisses |-> 0,
     hitRate |-> Ratio(0, 1), totalExecutionTime |-> 0,
     averageExecutionTime |-> Ratio(0, 1), entries |-> <<>>]

StatsNow ==
    [cacheSize |-> Cardinality(DOMAIN selectorCache),
     maxSize |-> maxSize,
     totalHits |-> totalHits,
     totalMisses |-> totalMisses,
     hitRate |-> Ratio(totalHits, CallCountOrOne(totalHits, totalMisses)),
     totalExecutionTime |-> totalExecutionTime,
     averageExecutionTime |->
         Ratio(totalExecutionTime, CallCountOrOne(totalHits, totalMisses)),
     entries |-> [i \in 1..Len(mapOrder) |->
                     EntryStats(mapOrder[i], selectorCache[mapOrder[i]], now)]]

(***************************************************************************)
(* createTrackedSelector(dependencies, combiner, options), with the        *)
(* dependencies state => state.items and state => state.nested.data.count  *)
(* and the combiner (items, count) => ({total: items.length + count}).     *)
(* A state object holds a reference to an items array and a count.         *)
(***************************************************************************)
TrackedStates == {"t1", "t2", "t3", "t4"}

TrackedStateOf(state) ==
    CASE state = "t1" -> [items |-> "A", count |-> 42]
      [] state = "t2" -> [items |-> "A", count |-> 43]
      [] state = "t3" -> [items |-> "B", count |-> 43]
      [] OTHER -> [items |-> "A", count |-> 42]

ItemsLength(ref) == IF ref = "A" THEN 3 ELSE 2

dependencies(state) ==
    << [ref |-> TrackedStateOf(state).items, n |-> 0],
       [ref |-> "", n |-> TrackedStateOf(state).count] >>

trackedCombiner(deps) == [total |-> ItemsLength(deps[1].ref) + deps[2].n]

(***************************************************************************)
(* deps.map((dep, i) => dep !== lastDeps[i] ? i : -1).filter(i => i !== -1) *)
(***************************************************************************)
EveryIndex(deps, lastDeps) == [i \in 1..Len(deps) |-> i - 1]

ChangedIndices(deps, lastDeps) ==
    LET marks == [i \in 1..Len(deps) |-> IF deps[i] # lastDeps[i] THEN i - 1 ELSE -1]
    IN  SelectSeq(marks, LAMBDA i : i # -1)

(***************************************************************************)
(* The memoization of createSelector: by arguments (the state reference)   *)
(* and by the dependency values.  "lru" keeps the latest of each, "weakMap" *)
(* keeps every one seen.                                                   *)
(***************************************************************************)
NoCache == [x \in {} |-> [total |-> 0]]

Cached(memoize, cache, key, value) ==
    IF memoize = "lru" THEN [x \in {key} |-> value]
    ELSE [x \in DOMAIN cache \cup {key} |-> IF x = key THEN value ELSE cache[x]]

NewTracked(memoize, trackChanges) ==
    [memoize |-> memoize,
     trackPerformance |-> FALSE,
     trackDependencyChanges |-> trackChanges,
     hasLastDeps |-> FALSE, lastDeps |-> <<>>,
     changedDeps |-> <<>>,
     executionCount |-> 0,
     totalExecutionTime |-> 0,
     byArgs |-> NoCache, byDeps |-> NoCache,
     calls |-> 0, runs |-> 0, runsSinceReset |-> 0, previousDeps |-> <<>>]

NoTracked == NewTracked("lru", FALSE)

TrackedRun(tr, deps) ==
    [tr EXCEPT
       !.executionCount = @ + 1,
       !.changedDeps = IF tr.trackDependencyChanges /\ tr.hasLastDeps
                       THEN ChangedIndices(deps, tr.lastDeps) ELSE @,
       !.hasLastDeps = TRUE,
       !.lastDeps = deps,
       !.byDeps = Cached(tr.memoize, @, deps, trackedCombiner(deps)),
       !.runs = @ + 1,
       !.runsSinceReset = @ + 1,
       !.previousDeps = tr.lastDeps]

TrackedStats ==
    [executionCount |-> tracked.executionCount,
     totalExecutionTime |-> tracked.totalExecutionTime,
     averageExecutionTime |->
         Ratio(tracked.totalExecutionTime, Max(1, tracked.executionCount)),
     lastChangedDependencies |-> tracked.changedDeps,
     dependencyCount |-> Len(dependencies("t1"))]

(***************************************************************************)
(* The record of the latest operation.                                     *)
(***************************************************************************)
NoOp ==
    [op |-> "create", state |-> "", params |-> <<>>, key |-> "",
     time |-> 0, hit |-> FALSE, expired |-> FALSE, ran |-> FALSE,
     outcome |-> "none", result |-> NoResult, evicted |-> "", reports |-> <<>>,
     removed |-> -1, pred |-> "", stats |-> NoStats, total |-> 0]

Live(seq, cache) == SelectSeq(seq, LAMBDA k : k \in DOMAIN cache)

Calls == totalHits + totalMisses

(***************************************************************************)
(* EnvironmentService (captureEnvironment.ts).  A promise returned by      *)
(* collectFreshEnvironmentData is a run: "pending" until it settles as     *)
(* "fulfilled" or "rejected".  A caller is one invocation of               *)
(* collectEnvironmentData with the promise it returned.                    *)
(***************************************************************************)
MaxCallers == 3
MaxEnvTicks == 1

CACHE_DURATION == 30 * 60 * 1000

NoEnvData == [id |-> "none", run |-> 0]

getFallbackDeviceInfo == [id |-> "fallback-device-id", run |-> 0]

FreshData(r) == [id |-> "uuid", run |-> r]

NewEnvironmentService ==
    [cache |-> [present |-> FALSE, data |-> NoEnvData, timestamp |-> 0],
     collectingPromise |-> 0,
     runs |-> <<>>,
     callers |-> <<>>]

isCacheValid(cache, t) == cache.present /\ t - cache.timestamp < CACHE_DURATION

Caller(pc, run, promise, value) ==
    [pc |-> pc, run |-> run, promise |-> promise, value |-> value]

\* `return this.collectingPromise` resolves the caller's promise with the
\* run's promise, so the caller's promise settles as the run settles.
AdoptedCaller(r, settled) ==
    IF settled = "fulfilled"
    THEN Caller("done", r, "resolved", FreshData(r))
    ELSE Caller("done", r, "rejected", NoEnvData)

selectorVars ==
    <<config, stateItems, selectors, tracked, selectorCache, mapOrder, keyUsage,
      totalHits, totalMisses, totalExecutionTime, recency, last>>

\* collectEnvironmentData up to its first await or its return; the finally
\* block runs before a return inside the try completes.
collectEnvironmentData ==
    /\ Len(env.callers) < MaxCallers
    /\ IF isCacheValid(env.cache, now)
       THEN env' = [env EXCEPT
                      !.callers = Append(@, Caller("done", 0, "resolved", env.cache.data)),
                      !.collectingPromise = 0]
       ELSE IF env.collectingPromise # 0
       THEN env' = [env EXCEPT
                      !.callers = Append(@, Caller("joined", env.collectingPromise,
                                                   "pending", NoEnvData)),
                      !.collectingPromise = 0]
       ELSE env' = [env EXCEPT
                      !.runs = Append(@, "pending"),
                      !.collectingPromise = Len(env.runs) + 1,
                      !.callers = Append(@, Caller("awaiting", Len(env.runs) + 1,
                                                   "pending", NoEnvData))]
    /\ UNCHANGED <<selectorVars, now, retry>>

\* The promise of collectFreshEnvironmentData settles.
settleCollection(r, outcome) ==
    /\ r \in DOMAIN env.runs
    /\ env.runs[r] = "pending"
    /\ env' = [env EXCEPT !.runs[r] = outcome]
    /\ UNCHANGED <<selectorVars, now, retry>>

\* The caller that started run r resumes after `await this.collectingPromise`.
resumeCollect(c) ==
    /\ c \in DOMAIN env.callers
    /\ env.callers[c].pc = "awaiting"
    /\ env.runs[env.callers[c].run] # "pending"
    /\ LET r == env.callers[c].run
       IN  IF env.runs[r] = "fulfilled"
           THEN env' = [env EXCEPT
                          !.cache = [present |-> TRUE, data |-> FreshData(r),
                                     timestamp |-> now],
                          !.callers[c] = Caller("done", r, "resolved", FreshData(r)),
                          !.collectingPromise = 0]
           ELSE env' = [env EXCEPT
                          !.callers[c] = Caller("done", r, "resolved",
                                                getFallbackDeviceInfo),
                          !.collectingPromise = 0]
    /\ UNCHANGED <<selectorVars, now, retry>>

\* The promise of a caller that returned the in-flight promise settles.
adoptCollection(c) ==
    /\ c \in DOMAIN env.callers
    /\ env.callers[c].pc = "joined"
    /\ env.runs[env.callers[c].run] # "pending"
    /\ env' = [env EXCEPT
                 !.callers[c] = AdoptedCaller(env.callers[c].run,
                                              env.runs[env.callers[c].run])]
    /\ UNCHANGED <<selectorVars, now, retry>>

\* dateUtils.create() advances, to just inside or just past CACHE_DURATION.
envTick ==
    /\ now < MaxEnvTicks * CACHE_DURATION - 1
    /\ \E d \in {CACHE_DURATION - 1, CACHE_DURATION} : now' = now + d
    /\ UNCHANGED <<selectorVars, env, retry>>

(***************************************************************************)
(* fetchWithRetry(url, options, retries = 3)                                *)
(***************************************************************************)
MaxRetries == 4
DefaultRetries == 3

Omitted == -1

RetryArgs == {Omitted} \cup (0..MaxRetries)

\* What one `await fetch(url, options)` can produce.
FetchOutcomes == {"ok", "notOk", "undefined", "rejected"}

RECURSIVE Pow2(_)
Pow2(n) == IF n = 0 THEN 1 ELSE 2 * Pow2(n - 1)

ConstantDelay(attempt) == 1000

RetryDelay(attempt) == 1000 * Pow2(attempt - 1)

IdleRetry ==
    [pc |-> "idle", retries |-> 0, attempt |-> 0, outcomes |-> <<>>,
     waits |-> <<>>, thrown |-> "none"]

\* The error thrown inside the try by one failed attempt.
AttemptError(outcome) ==
    CASE outcome = "notOk" -> "Server error"
      [] outcome = "undefined" -> "Fetch returned undefined response"
      [] OTHER -> "fetch rejection"

LoopHead(r, attempt) ==
    IF attempt <= r.retries
    THEN [r EXCEPT !.pc = "fetching", !.attempt = attempt]
    ELSE [r EXCEPT !.pc = "thrown", !.thrown = "fetchWithRetry: exhausted retries"]

fetchWithRetry(retries) ==
    /\ retry.pc = "idle"
    /\ retry' = LoopHead([retry EXCEPT
                            !.retries = IF retries = Omitted THEN DefaultRetries
                                        ELSE retries], 1)
    /\ UNCHANGED <<selectorVars, now, env>>

\* `await fetch(url, options)` settles and the attempt runs to its end.
fetchSettles(outcome) ==
    /\ retry.pc = "fetching"
    /\ LET r == [retry EXCEPT !.outcomes = Append(@, outcome)]
       IN  IF outcome = "ok"
           THEN retry' = [r EXCEPT !.pc = "returned"]
           ELSE IF r.attempt = r.retries
           THEN retry' = [r EXCEPT !.pc = "thrown", !.thrown = AttemptError(outcome)]
           ELSE retry' = [r EXCEPT !.pc = "waiting",
                                   !.waits = Append(@, RetryDelay(r.attempt))]
    /\ UNCHANGED <<selectorVars, now, env>>

\* The setTimeout of the back-off fires and the loop goes round.
backoffElapses ==
    /\ retry.pc = "waiting"
    /\ retry' = LoopHead(retry, retry.attempt + 1)
    /\ UNCHANGED <<selectorVars, now, env>>

(***************************************************************************)
(* createParameterizedSelector(selector, options)                          *)
(***************************************************************************)
Init ==
    /\ maxSize \in 1..MaxMaxSize
    /\ expireAfter \in 0..MaxExpire
    /\ trackPerformance = FALSE
    /\ kind = "generic"
    /\ stateItems = [state \in BuilderStates |-> ItemsOf(state)]
    /\ selectors = <<>>
    /\ tracked = NoTracked
    /\ env = NewEnvironmentService
    /\ retry = IdleRetry
    /\ selectorCache = [k \in {} |-> NewEntry(<<>>, 0)]
    /\ mapOrder = <<>>
    /\ keyUsage = <<>>
    /\ totalHits = 0
    /\ totalMisses = 0
    /\ totalExecutionTime = 0
    /\ now = 0
    /\ recency = <<>>
    /\ last = NoOp

(***************************************************************************)
(* factorySelector(state, ...params)                                       *)
(***************************************************************************)
factorySelector(state, params) ==
    /\ LET enc == getCacheKeyForParams(params) IN
       IF enc.raised
       THEN /\ last' = [NoOp EXCEPT !.op = "call",
                             !.state = state, !.params = params, !.time = now,
                             !.outcome = "keyerror", !.reports = enc.reports]
            /\ UNCHANGED <<selectorCache, mapOrder, keyUsage, totalHits, totalMisses,
                           totalExecutionTime, recency, stateItems, selectors>>
       ELSE LET look == getOrCreateCacheEntry(params, enc.key, now)
                inner == InnerSelector(look.entry, state)
                stored == IF inner.threw
                          THEN look.entry
                          ELSE TrackedEntry(look.entry, inner.memo, now)
                cache == IF enc.key \in DOMAIN look.cache
                         THEN With(look.cache, enc.key, stored)
                         ELSE look.cache
            IN  /\ selectorCache' = cache
                /\ stateItems' = IF inner.ran /\ ~inner.threw
                                 THEN ItemsAfter(state, look.entry.params)
                                 ELSE stateItems
                /\ selectors' = IF inner.ran /\ ~inner.threw
                                THEN SelectorsAfter(state, look.entry.params)
                                ELSE selectors
                /\ mapOrder' = Live(IF look.hit THEN mapOrder
                                    ELSE Append(RemoveKey(mapOrder, enc.key), enc.key),
                                    cache)
                /\ keyUsage' = look.usage
                /\ totalHits' = look.hits
                /\ totalMisses' = look.misses
                /\ totalExecutionTime' =
                      IF inner.threw THEN totalExecutionTime
                      ELSE TrackedTotal(look.entry, now)
                /\ recency' = Live(Append(SelectSeq(recency, LAMBDA k : k # enc.key),
                                          enc.key), cache)
                /\ last' = [NoOp EXCEPT !.op = "call",
                                 !.state = state, !.params = params,
                                 !.key = enc.key, !.time = now,
                                 !.hit = look.hit, !.expired = look.expired,
                                 !.ran = inner.ran,
                                 !.outcome = IF inner.threw THEN "throw" ELSE "value",
                                 !.result = inner.result,
                                 !.evicted = look.evicted,
                                 !.reports = enc.reports]
    /\ UNCHANGED <<service, config, tracked, now>>

(***************************************************************************)
(* clearCache()                                                            *)
(***************************************************************************)
ClearMapOnly ==
    /\ selectorCache' = [k \in {} |-> NewEntry(<<>>, 0)]
    /\ mapOrder' = <<>>
    /\ recency' = <<>>
    /\ last' = [NoOp EXCEPT !.op = "clearCache"]
    /\ UNCHANGED <<service, config, tracked, stateItems, selectors, keyUsage, totalHits,
                   totalMisses, totalExecutionTime, now>>

ClearAndResetCounters ==
    /\ selectorCache' = [k \in {} |-> NewEntry(<<>>, 0)]
    /\ mapOrder' = <<>>
    /\ keyUsage' = <<>>
    /\ recency' = <<>>
    /\ totalHits' = 0
    /\ totalMisses' = 0
    /\ last' = [NoOp EXCEPT !.op = "clearCache"]
    /\ UNCHANGED <<service, config, tracked, stateItems, selectors, totalExecutionTime, now>>

clearCache ==
    /\ selectorCache' = [k \in {} |-> NewEntry(<<>>, 0)]
    /\ mapOrder' = <<>>
    /\ keyUsage' = <<>>
    /\ recency' = <<>>
    /\ last' = [NoOp EXCEPT !.op = "clearCache"]
    /\ UNCHANGED <<service, config, tracked, stateItems, selectors, totalHits, totalMisses,
                   totalExecutionTime, now>>

(***************************************************************************)
(* invalidateCache() and invalidateCache(predicate)                        *)
(***************************************************************************)
InvalidateNothing ==
    /\ last' = [NoOp EXCEPT !.op = "invalidateAll"]
    /\ UNCHANGED <<service, config, tracked, stateItems, selectors, selectorCache, mapOrder,
                   keyUsage, recency, totalHits, totalMisses,
                   totalExecutionTime, now>>

invalidateCacheAll ==
    /\ selectorCache' = [k \in {} |-> NewEntry(<<>>, 0)]
    /\ mapOrder' = <<>>
    /\ keyUsage' = <<>>
    /\ recency' = <<>>
    /\ last' = [NoOp EXCEPT !.op = "invalidateAll"]
    /\ UNCHANGED <<service, config, tracked, stateItems, selectors, totalHits, totalMisses,
                   totalExecutionTime, now>>

invalidateCache(pred) ==
    LET keysToRemove == KeysToRemove(selectorCache, pred) IN
    /\ selectorCache' = [k \in DOMAIN selectorCache \ keysToRemove |-> selectorCache[k]]
    /\ mapOrder' = SelectSeq(mapOrder, LAMBDA k : k \notin keysToRemove)
    /\ keyUsage' = RemoveFromUsage(keyUsage, keysToRemove)
    /\ recency' = SelectSeq(recency, LAMBDA k : k \notin keysToRemove)
    /\ last' = [NoOp EXCEPT !.op = "invalidate", !.pred = pred,
                     !.removed = Cardinality(keysToRemove)]
    /\ UNCHANGED <<service, config, tracked, stateItems, selectors, totalHits, totalMisses,
                   totalExecutionTime, now>>

(***************************************************************************)
(* A second factory, made by another createParameterizedSelector call: its *)
(* closure state is the record selectors[1].  Its selector call, its       *)
(* clearCache() and its invalidateCache(predicate).                        *)
(***************************************************************************)
otherFactorySelector(state, params) ==
    /\ selectors' = << FactoryCall(selectors[1], state, params, now).factory >>
    /\ last' = [NoOp EXCEPT !.op = "otherCall", !.state = state, !.params = params,
                     !.time = now,
                     !.result = FactoryCall(selectors[1], state, params, now).result]
    /\ UNCHANGED <<service, config, tracked, stateItems, selectorCache, mapOrder, keyUsage,
                   totalHits, totalMisses, totalExecutionTime, now, recency>>

ClearEveryStore ==
    /\ selectors' = << [selectors[1] EXCEPT
                          !.selectorCache = [key \in {} |-> NewEntry(<<>>, 0)],
                          !.keyUsage = <<>>] >>
    /\ selectorCache' = [key \in {} |-> NewEntry(<<>>, 0)]
    /\ keyUsage' = <<>>
    /\ mapOrder' = <<>>
    /\ recency' = <<>>
    /\ last' = [NoOp EXCEPT !.op = "otherClearCache"]
    /\ UNCHANGED <<service, config, tracked, stateItems, totalHits, totalMisses,
                   totalExecutionTime, now>>

otherClearCache ==
    /\ selectors' = << [selectors[1] EXCEPT
                          !.selectorCache = [key \in {} |-> NewEntry(<<>>, 0)],
                          !.keyUsage = <<>>] >>
    /\ last' = [NoOp EXCEPT !.op = "otherClearCache"]
    /\ UNCHANGED <<service, config, tracked, stateItems, selectorCache, mapOrder, keyUsage,
                   totalHits, totalMisses, totalExecutionTime, now, recency>>

otherInvalidateCache(pred) ==
    /\ selectors' =
          << [selectors[1] EXCEPT
                !.selectorCache =
                    [key \in DOMAIN @ \ KeysToRemove(selectors[1].selectorCache, pred)
                        |-> @[key]],
                !.keyUsage =
                    RemoveFromUsage(@, KeysToRemove(selectors[1].selectorCache, pred))] >>
    /\ last' = [NoOp EXCEPT !.op = "otherInvalidate", !.pred = pred,
                     !.removed =
                        Cardinality(KeysToRemove(selectors[1].selectorCache, pred))]
    /\ UNCHANGED <<service, config, tracked, stateItems, selectorCache, mapOrder, keyUsage,
                   totalHits, totalMisses, totalExecutionTime, now, recency>>

(***************************************************************************)
(* getStats()                                                              *)
(***************************************************************************)
getStats ==
    /\ last' = [NoOp EXCEPT !.op = "getStats", !.stats = StatsNow]
    /\ UNCHANGED <<service, config, tracked, stateItems, selectors, selectorCache, mapOrder,
                   keyUsage, recency, totalHits, totalMisses,
                   totalExecutionTime, now>>

(***************************************************************************)
(* Time passes between two operations.                                     *)
(***************************************************************************)
Tick ==
    /\ now < MaxTime
    /\ now' = now + 1
    /\ UNCHANGED <<service, config, tracked, stateItems, selectors, selectorCache, mapOrder,
                   keyUsage, totalHits, totalMisses, totalExecutionTime,
                   recency, last>>

Next ==
    \/ \E state \in States, params \in ParamsUniverse :
          Calls < MaxCalls /\ factorySelector(state, params)
    \/ clearCache
    \/ invalidateCacheAll
    \/ \E pred \in Predicates : invalidateCache(pred)
    \/ Tick

Spec == Init /\ [][Next]_vars

(***************************************************************************)
(* Longer call sequences on a factory without expiry: distinct plain keys, *)
(* one state, a clock that stands still.                                   *)
(***************************************************************************)
InitLRU == Init /\ expireAfter = 0

NextLRU ==
    \/ \E params \in LRUParams : Calls < MaxLRUCalls /\ factorySelector("s1", params)
    \/ clearCache
    \/ invalidateCacheAll
    \/ \E pred \in Predicates : invalidateCache(pred)

SpecLRU == InitLRU /\ [][NextLRU]_vars

(***************************************************************************)
(* A factory created with trackPerformance: true, read through getStats:   *)
(* one state, two arguments the wrapped selector accepts and one on which  *)
(* it throws.                                                              *)
(***************************************************************************)
InitPerf ==
    /\ maxSize \in PerfSizes
    /\ expireAfter \in 0..MaxExpire
    /\ trackPerformance = TRUE
    /\ kind = "generic"
    /\ stateItems = [state \in BuilderStates |-> ItemsOf(state)]
    /\ selectors = <<>>
    /\ tracked = NoTracked
    /\ env = NewEnvironmentService
    /\ retry = IdleRetry
    /\ selectorCache = [k \in {} |-> NewEntry(<<>>, 0)]
    /\ mapOrder = <<>>
    /\ keyUsage = <<>>
    /\ totalHits = 0
    /\ totalMisses = 0
    /\ totalExecutionTime = 0
    /\ now = 0
    /\ recency = <<>>
    /\ last = NoOp

NextPerf ==
    \/ \E params \in PerfParams :
          Calls < MaxPerfCalls /\ factorySelector("s1", params)
    \/ clearCache
    \/ invalidateCacheAll
    \/ \E pred \in Predicates : invalidateCache(pred)
    \/ getStats
    \/ Tick

SpecPerf == InitPerf /\ [][NextPerf]_vars

(***************************************************************************)
(* The factories returned by createFilteredSelector, createSortSelector,   *)
(* createPaginationSelector and combineParameterizedSelectors, called with *)
(* the arguments their wrapped selectors are written for: an integer       *)
(* minId, a boolean reverse flag, an integer page and a pageSize >= 1,     *)
(* each of which may be left out.                                          *)
(***************************************************************************)
BuilderKinds == {"filter", "sort", "combine"}

LargeMaxSize(k) == 100

BuilderMaxSize(k) ==
    CASE k = "filter" -> FilteredMaxSize
      [] k = "generic" -> DefaultMaxSize
      [] k \in {"path", "pathOnly"} -> PathMaxSize
      [] k = "sort" -> SortMaxSize
      [] k = "pagination" -> PaginationMaxSize
      [] OTHER -> CombinedMaxSize

MinIdParams == { <<Num(n)>> : n \in 1..MaxMinId } \cup { <<>> }

PageParams ==
    { <<>> } \cup { <<Num(p)>> : p \in -1..MaxPage }
        \cup { <<Num(p), Num(ps)>> : p \in -1..MaxPage, ps \in 1..MaxPageSize }

KindParams(k) ==
    CASE k = "sort" -> { <<>>, <<BoolV(TRUE)>>, <<BoolV(FALSE)>> }
      [] OTHER -> MinIdParams

InitKind(builder) ==
    /\ kind = builder
    /\ maxSize = BuilderMaxSize(kind)
    /\ expireAfter = 0
    /\ trackPerformance = FALSE
    /\ stateItems = [state \in BuilderStates |-> ItemsOf(state)]
    /\ selectors = IF kind = "combine"
                   THEN << NewFactory("filter", FilteredMaxSize),
                           NewFactory("sortById", SortMaxSize) >>
                   ELSE <<>>
    /\ tracked = NoTracked
    /\ env = NewEnvironmentService
    /\ retry = IdleRetry
    /\ selectorCache = [key \in {} |-> NewEntry(<<>>, 0)]
    /\ mapOrder = <<>>
    /\ keyUsage = <<>>
    /\ totalHits = 0
    /\ totalMisses = 0
    /\ totalExecutionTime = 0
    /\ now = 0
    /\ recency = <<>>
    /\ last = NoOp

NextBuilders ==
    \/ \E state \in BuilderStates, params \in KindParams(kind) :
          Calls < MaxBuilderCalls /\ factorySelector(state, params)
    \/ clearCache

InitBuilders == \E k \in BuilderKinds : InitKind(k)

SpecBuilders == InitBuilders /\ [][NextBuilders]_vars

PathKinds == {"path", "pathOnly"}

InitPath == \E k \in PathKinds : InitKind(k)

NextPath ==
    \/ \E state \in BuilderStates, params \in MinIdParams :
          Calls < MaxPathCalls /\ factorySelector(state, params)
    \/ clearCache

SpecPath == InitPath /\ [][NextPath]_vars

(***************************************************************************)
(* A factory created without a maxSize option and the factories of the     *)
(* builders, filled past their capacity: each call passes an integer not   *)
(* passed before, or repeats the first or the latest argument while its    *)
(* entry is in the store.                                                  *)
(***************************************************************************)
CapacityKinds == {"generic", "path", "filter", "sort", "combine"}

InitCapacity == \E k \in CapacityKinds : InitKind(k)

NextCapacity ==
    \E n \in 1..MaxCapacityCalls :
        /\ Calls < MaxCapacityCalls
        /\ \/ n = Calls + 1
           \/ /\ n \in {1, Calls}
              /\ totalHits < MaxCapacityHits
              /\ JSONStringify(<<Num(n)>>) \in DOMAIN selectorCache
        /\ factorySelector("s1", <<Num(n)>>)

SpecCapacity == InitCapacity /\ [][NextCapacity]_vars

InitPagination == InitKind("pagination")

NextPagination ==
    \/ \E state \in BuilderStates, params \in PageParams :
          Calls < MaxPageCalls /\ factorySelector(state, params)
    \/ clearCache

SpecPagination == InitPagination /\ [][NextPagination]_vars

(***************************************************************************)
(* A call of the tracked selector, its getStats() and its resetStats().    *)
(***************************************************************************)
trackedSelector(state) ==
    LET deps == dependencies(state)
        known == state \in DOMAIN tracked.byArgs
        ran == ~known /\ deps \notin DOMAIN tracked.byDeps
        tr == IF ran THEN TrackedRun(tracked, deps) ELSE tracked
        result == IF known THEN tracked.byArgs[state] ELSE tr.byDeps[deps]
    IN  /\ tracked' = [tr EXCEPT !.byArgs = Cached(tr.memoize, @, state, result),
                                 !.calls = @ + 1]
        /\ last' = [NoOp EXCEPT !.op = "trackedCall", !.state = state, !.ran = ran,
                         !.outcome = "value", !.total = result.total]
        /\ UNCHANGED <<service, config, stateItems, selectors, selectorCache, mapOrder,
                       keyUsage, totalHits, totalMisses, totalExecutionTime, now,
                       recency>>

trackedGetStats ==
    /\ last' = [NoOp EXCEPT !.op = "trackedGetStats", !.stats = TrackedStats]
    /\ UNCHANGED <<service, config, tracked, stateItems, selectors, selectorCache, mapOrder,
                   keyUsage, totalHits, totalMisses, totalExecutionTime, now,
                   recency>>

resetStats ==
    /\ tracked' = [tracked EXCEPT !.executionCount = 0, !.totalExecutionTime = 0,
                                  !.changedDeps = <<>>, !.runsSinceReset = 0]
    /\ last' = [NoOp EXCEPT !.op = "resetStats"]
    /\ UNCHANGED <<service, config, stateItems, selectors, selectorCache, mapOrder,
                   keyUsage, totalHits, totalMisses, totalExecutionTime, now,
                   recency>>

InitTracked ==
    /\ maxSize = 1
    /\ expireAfter = 0
    /\ trackPerformance = FALSE
    /\ kind = "generic"
    /\ stateItems = [state \in BuilderStates |-> ItemsOf(state)]
    /\ selectors = <<>>
    /\ \E memoize \in {"lru", "weakMap"}, trackChanges \in BOOLEAN :
          tracked = NewTracked(memoize, trackChanges)
    /\ env = NewEnvironmentService
    /\ retry = IdleRetry
    /\ selectorCache = [k \in {} |-> NewEntry(<<>>, 0)]
    /\ mapOrder = <<>>
    /\ keyUsage = <<>>
    /\ totalHits = 0
    /\ totalMisses = 0
    /\ totalExecutionTime = 0
    /\ now = 0
    /\ recency = <<>>
    /\ last = NoOp

NextTracked ==
    \/ \E state \in TrackedStates :
          tracked.calls < MaxTrackedCalls /\ trackedSelector(state)
    \/ trackedGetStats
    \/ resetStats

SpecTracked == InitTracked /\ [][NextTracked]_vars

(***************************************************************************)
(* Single lookups seen step by step: two or three places, with and without *)
(* expiry and performance tracking, one state, two arguments the wrapped   *)
(* selector accepts and one on which it throws.                            *)
(***************************************************************************)
InitSteps ==
    /\ maxSize \in StepSizes
    /\ expireAfter \in 0..MaxExpire
    /\ trackPerformance \in BOOLEAN
    /\ kind = "generic"
    /\ stateItems = [state \in BuilderStates |-> ItemsOf(state)]
    /\ selectors = <<>>
    /\ tracked = NoTracked
    /\ env = NewEnvironmentService
    /\ retry = IdleRetry
    /\ selectorCache = [k \in {} |-> NewEntry(<<>>, 0)]
    /\ mapOrder = <<>>
    /\ keyUsage = <<>>
    /\ totalHits = 0
    /\ totalMisses = 0
    /\ totalExecutionTime = 0
    /\ now = 0
    /\ recency = <<>>
    /\ last = NoOp

NextSteps ==
    \/ \E params \in StepParams : Calls < MaxStepCalls /\ factorySelector("s1", params)
    \/ clearCache
    \/ Tick

SpecSteps == InitSteps /\ [][NextSteps]_vars

(***************************************************************************)
(* Cache management on a factory whose keys come from the fallback of      *)
(* getCacheKeyForParams.                                                   *)
(***************************************************************************)
InitFallback ==
    /\ maxSize \in FallbackSizes
    /\ expireAfter = 0
    /\ trackPerformance = FALSE
    /\ kind = "generic"
    /\ stateItems = [state \in BuilderStates |-> ItemsOf(state)]
    /\ selectors = <<>>
    /\ tracked = NoTracked
    /\ env = NewEnvironmentService
    /\ retry = IdleRetry
    /\ selectorCache = [k \in {} |-> NewEntry(<<>>, 0)]
    /\ mapOrder = <<>>
    /\ keyUsage = <<>>
    /\ totalHits = 0
    /\ totalMisses = 0
    /\ totalExecutionTime = 0
    /\ now = 0
    /\ recency = <<>>
    /\ last = NoOp

NextFallback ==
    \/ \E params \in FallbackParams :
          Calls < MaxFallbackCalls /\ factorySelector("s1", params)
    \/ clearCache
    \/ invalidateCacheAll
    \/ \E pred \in Predicates : invalidateCache(pred)

SpecFallback == InitFallback /\ [][NextFallback]_vars

(***************************************************************************)
(* A factory called with Dates and with strings.                           *)
(***************************************************************************)
InitDates ==
    /\ maxSize \in DateSizes
    /\ expireAfter = 0
    /\ trackPerformance = FALSE
    /\ kind = "generic"
    /\ stateItems = [state \in BuilderStates |-> ItemsOf(state)]
    /\ selectors = <<>>
    /\ tracked = NoTracked
    /\ env = NewEnvironmentService
    /\ retry = IdleRetry
    /\ selectorCache = [k \in {} |-> NewEntry(<<>>, 0)]
    /\ mapOrder = <<>>
    /\ keyUsage = <<>>
    /\ totalHits = 0
    /\ totalMisses = 0
    /\ totalExecutionTime = 0
    /\ now = 0
    /\ recency = <<>>
    /\ last = NoOp

NextDates ==
    \/ \E params \in DateParams : Calls < MaxDateCalls /\ factorySelector("s1", params)
    \/ clearCache
    \/ \E pred \in Predicates : invalidateCache(pred)
    \/ getStats

SpecDates == InitDates /\ [][NextDates]_vars

(***************************************************************************)
(* Two factories made by two createParameterizedSelector calls with the    *)
(* same wrapped selector and options, used in any interleaving.            *)
(***************************************************************************)
IsolationParams == { <<Num(1)>>, <<Num(2)>> }

InitIsolation ==
    /\ maxSize = MaxIsolationSize
    /\ expireAfter = 0
    /\ trackPerformance = FALSE
    /\ kind = "generic"
    /\ stateItems = [state \in BuilderStates |-> ItemsOf(state)]
    /\ selectors = << NewFactory("generic", MaxIsolationSize) >>
    /\ tracked = NoTracked
    /\ env = NewEnvironmentService
    /\ retry = IdleRetry
    /\ selectorCache = [k \in {} |-> NewEntry(<<>>, 0)]
    /\ mapOrder = <<>>
    /\ keyUsage = <<>>
    /\ totalHits = 0
    /\ totalMisses = 0
    /\ totalExecutionTime = 0
    /\ now = 0
    /\ recency = <<>>
    /\ last = NoOp

NextIsolation ==
    \/ \E params \in IsolationParams :
          Calls < MaxIsolationCalls /\ factorySelector("s1", params)
    \/ clearCache
    \/ \E pred \in Predicates : invalidateCache(pred)
    \/ \E params \in IsolationParams :
          /\ Len(selectors[1].calls) < MaxIsolationCalls
          /\ otherFactorySelector("s1", params)
    \/ otherClearCache
    \/ \E pred \in Predicates : otherInvalidateCache(pred)

SpecIsolation == InitIsolation /\ [][NextIsolation]_vars

(***************************************************************************)
(* A factory with the default options called with function and Map         *)
(* arguments.                                                              *)
(***************************************************************************)
InitKeys ==
    /\ maxSize \in KeySizes
    /\ expireAfter = 0
    /\ trackPerformance = FALSE
    /\ kind = "generic"
    /\ stateItems = [state \in BuilderStates |-> ItemsOf(state)]
    /\ selectors = <<>>
    /\ tracked = NoTracked
    /\ env = NewEnvironmentService
    /\ retry = IdleRetry
    /\ selectorCache = [k \in {} |-> NewEntry(<<>>, 0)]
    /\ mapOrder = <<>>
    /\ keyUsage = <<>>
    /\ totalHits = 0
    /\ totalMisses = 0
    /\ totalExecutionTime = 0
    /\ now = 0
    /\ recency = <<>>
    /\ last = NoOp

NextKeys ==
    \/ \E params \in FnMapParams : Calls < MaxKeyCalls /\ factorySelector("s1", params)
    \/ clearCache
    \/ getStats

SpecKeys == InitKeys /\ [][NextKeys]_vars

(***************************************************************************)
(* Cache management on a factory with up to MaxInvSize places, no expiry:  *)
(* plain keys and one key that JSON.parse cannot decode.                   *)
(***************************************************************************)
InitInv ==
    /\ maxSize \in 1..MaxInvSize
    /\ expireAfter = 0
    /\ trackPerformance = FALSE
    /\ kind = "generic"
    /\ stateItems = [state \in BuilderStates |-> ItemsOf(state)]
    /\ selectors = <<>>
    /\ tracked = NoTracked
    /\ env = NewEnvironmentService
    /\ retry = IdleRetry
    /\ selectorCache = [k \in {} |-> NewEntry(<<>>, 0)]
    /\ mapOrder = <<>>
    /\ keyUsage = <<>>
    /\ totalHits = 0
    /\ totalMisses = 0
    /\ totalExecutionTime = 0
    /\ now = 0
    /\ recency = <<>>
    /\ last = NoOp

NextInv ==
    \/ \E params \in InvParams : Calls < MaxInvCalls /\ factorySelector("s1", params)
    \/ clearCache
    \/ invalidateCacheAll
    \/ \E pred \in Predicates : invalidateCache(pred)

SpecInv == InitInv /\ [][NextInv]_vars

(***************************************************************************)
(* Predicate invalidation with predicates that throw, on the factory of    *)
(* InitInv.                                                                *)
(***************************************************************************)
NextAbsorb ==
    \/ \E params \in InvParams : Calls < MaxInvCalls /\ factorySelector("s1", params)
    \/ clearCache
    \/ \E pred \in ThrowingPredicates : invalidateCache(pred)

SpecAbsorb == InitInv /\ [][NextAbsorb]_vars

(***************************************************************************)
(* Callers of one EnvironmentService, and one call of fetchWithRetry.      *)
(***************************************************************************)
InitService == Init /\ maxSize = 1 /\ expireAfter = 0

NextEnv ==
    \/ collectEnvironmentData
    \/ \E r \in 1..MaxCallers, outcome \in {"fulfilled", "rejected"} :
          settleCollection(r, outcome)
    \/ \E c \in 1..MaxCallers : resumeCollect(c)
    \/ \E c \in 1..MaxCallers : adoptCollection(c)
    \/ envTick

SpecEnv == InitService /\ [][NextEnv]_vars

NextFetch ==
    \/ \E retries \in RetryArgs : fetchWithRetry(retries)
    \/ \E outcome \in FetchOutcomes : fetchSettles(outcome)
    \/ backoffElapses

\* fetch settles and timers fire: a step that is enabled is eventually taken.
SpecFetch == InitService /\ [][NextFetch]_vars /\ WF_vars(NextFetch)

(***************************************************************************)
(* Properties.                                                             *)
(***************************************************************************)
CacheSize == Cardinality(DOMAIN selectorCache)

CallStep == Calls' = Calls + 1

\* C1: after every operation the store holds at most maxSize entries.
CapacityInvariant == CacheSize <= maxSize

\* A miss on a full store has just evicted an entry.
CapacityWitness ==
    last.op = "call" /\ last.evicted # "" /\ CacheSize = maxSize

\* C2: after every operation keyUsage lists exactly the keys of
\* selectorCache, each of them once.
StoreOrderConsistent ==
    /\ Len(keyUsage) = CacheSize
    /\ { keyUsage[i] : i \in 1..Len(keyUsage) } = DOMAIN selectorCache

\* An expired entry has just been replaced under its key.
StoreOrderWitness ==
    last.op = "call" /\ last.expired /\ keyUsage = <<last.key>>

\* C3: a call returns the wrapped selector's result for the state and the
\* arguments of that very call, or raises what the wrapped selector raises
\* for them.
Transparency ==
    last.op = "call" =>
        IF SelectorThrows(last.state, last.params)
        THEN last.outcome = "throw"
        ELSE last.outcome = "value"
             /\ last.result = selector(last.state, last.params)

\* C4: a call that repeats the call before it (same state, same arguments,
\* no cache management in between, the entry not expired) is a hit that
\* returns the earlier result without running the wrapped selector.
MemoizedSecondCall ==
    [][ ( /\ last.op = "call" /\ last.outcome = "value"
          /\ CallStep
          /\ last'.state = last.state /\ last'.params = last.params
          /\ last.key \in DOMAIN selectorCache
          /\ (expireAfter = 0 \/ now - selectorCache[last.key].created <= expireAfter) )
        => ( /\ last'.hit /\ last'.outcome = "value"
             /\ last'.result = last.result /\ ~last'.ran
             /\ totalHits' = totalHits + 1 /\ totalMisses' = totalMisses ) ]_vars

\* A hit has just returned the memoized result.
MemoizedWitness ==
    last.op = "call" /\ last.hit /\ ~last.ran /\ last.outcome = "value"

PrimitiveTuple(params) ==
    \A i \in 1..Len(params) :
        params[i].t \in {"number", "string", "null", "undefined", "nan", "infinity"}

\* C5: two calls from an empty cache whose argument tuples differ in a
\* primitive value are two misses that leave two entries (maxSize >= 2).
KeyDistinctness ==
    [][ ( /\ maxSize >= 2
          /\ last.op = "call" /\ ~last.hit /\ ~last.expired /\ last.evicted = ""
          /\ CacheSize = 1
          /\ CallStep
          /\ PrimitiveTuple(last.params) /\ PrimitiveTuple(last'.params)
          /\ last'.params # last.params )
        => ( ~last'.hit /\ CacheSize' = 2 /\ totalMisses' = totalMisses + 1 ) ]_vars

\* C6: a miss on a full store evicts the key whose latest call is the
\* oldest among the live keys, never the key of the call; any other call
\* evicts nothing.
LRUEvictionOrder ==
    [][ CallStep =>
        IF ~last'.hit /\ ~last'.expired /\ CacheSize = maxSize /\ recency # <<>>
        THEN /\ last'.evicted = Head(recency)
             /\ last'.evicted # last'.key
             /\ DOMAIN selectorCache' =
                   (DOMAIN selectorCache \ {Head(recency)}) \cup {last'.key}
        ELSE /\ last'.evicted = ""
             /\ DOMAIN selectorCache' = DOMAIN selectorCache \cup {last'.key} ]_vars

\* With two places, an entry that was hit has outlived a later-inserted one.
LRUEvictionWitness ==
    /\ maxSize = 2 /\ last.op = "call" /\ last.evicted # ""
    /\ \E k \in DOMAIN selectorCache : k # last.key /\ selectorCache[k].hits > 0

\* C7: with expireAfter = T > 0, the call that follows the creating call of
\* an entry with the same arguments is a hit exactly when at most T has
\* passed since the creating call.
ExpiryBoundary ==
    [][ ( /\ expireAfter > 0
          /\ last.op = "call" /\ ~last.hit
          /\ CallStep
          /\ last'.params = last.params )
        => ( /\ last'.hit <=> (now - last.time <= expireAfter)
             /\ last'.expired <=> (now - last.time > expireAfter) ) ]_vars

\* A hit exactly expireAfter after the entry was created.
ExpiryBoundaryWitness ==
    /\ expireAfter > 0 /\ last.op = "call" /\ last.hit
    /\ last.key \in DOMAIN selectorCache
    /\ selectorCache[last.key].hits = 1
    /\ last.time - selectorCache[last.key].created = expireAfter

\* C8: a call whose wrapped selector throws leaves the store and the LRU
\* order as they were before the call.
FailureLeavesCacheUntouched ==
    [][ (CallStep /\ last'.outcome = "throw")
        => (selectorCache' = selectorCache /\ keyUsage' = keyUsage) ]_vars

\* C9: when the wrapped selector throws for the state and the arguments of
\* a call, the call raises that exception, and it has run the wrapped
\* selector (nothing is replayed from an earlier call).
ExceptionsPropagate ==
    (last.op = "call" /\ SelectorThrows(last.state, last.params))
        => (last.outcome = "throw" /\ last.ran)

\* C10: no call raises a key encoding error; when the structural encoding
\* throws, the failure is reported once, with the message and the label,
\* and the entry is stored under the fallback key.
KeyEncodingTotal ==
    last.op = "call" =>
        /\ last.outcome # "keyerror"
        /\ IF \E i \in 1..Len(last.params) : last.params[i].t \in {"bigint", "circular"}
           THEN /\ last.reports =
                     <<[message |-> "Failed to create cache key for parameterized selector",
                        selectorLabel |-> debugLabel]>>
                /\ last.key = FallbackKey(last.params)
                /\ last.key \in DOMAIN selectorCache
           ELSE last.reports = <<>>

\* A call with a circular object has used the fallback key.
KeyEncodingWitness ==
    /\ last.op = "call" /\ last.params = <<CircV(<<"b", "a">>)>>
    /\ last.key = "obj_b_a" /\ Len(last.reports) = 1

(***************************************************************************)
(* The predicate of an invalidateCache call applied to the argument tuple  *)
(* of an entry.  A tuple of numbers and strings is decoded from its key as *)
(* it was passed; a key of the fallback form decodes to no tuple at all.   *)
(***************************************************************************)
ArgsSatisfy(pred, params) ==
    /\ \A i \in 1..Len(params) : params[i].t \in {"number", "string"}
    /\ \/ pred = "all"
       \/ pred = "gt1" /\ params[1].t = "number" /\ params[1].n > 1

\* C11: invalidateCache(p) removes from selectorCache and from keyUsage
\* exactly the entries whose decoded argument tuple satisfies p, keeps the
\* other entries and their relative order, and returns the number removed.
PredicateInvalidation ==
    [][ (last'.op = "invalidate" /\ ~CallStep) =>
        LET matching == { k \in DOMAIN selectorCache :
                            ArgsSatisfy(last'.pred, selectorCache[k].params) }
        IN  /\ DOMAIN selectorCache' = DOMAIN selectorCache \ matching
            /\ \A k \in DOMAIN selectorCache' : selectorCache'[k] = selectorCache[k]
            /\ keyUsage' = SelectSeq(keyUsage, LAMBDA k : k \notin matching)
            /\ last'.removed = Cardinality(matching) ]_vars

\* Entries for 1, 2 and 3, then args[0] > 1: two removed, one left.
PredicateInvalidationWitness ==
    /\ last.op = "invalidate" /\ last.pred = "gt1" /\ last.removed = 2
    /\ DOMAIN selectorCache = {"[1]"} /\ keyUsage = <<"[1]">>

\* C12: invalidateCache() leaves the store as clearCache() does, empty with
\* an empty LRU list and the counters untouched, and returns nothing.
InvalidateAllClears ==
    [][ (last'.op = "invalidateAll" /\ ~CallStep) =>
        /\ DOMAIN selectorCache' = {}
        /\ keyUsage' = <<>>
        /\ last'.removed = -1
        /\ UNCHANGED <<totalHits, totalMisses, totalExecutionTime>> ]_vars

\* invalidateCache() has just emptied a store that held entries.
InvalidateAllWitness ==
    last.op = "invalidateAll" /\ totalMisses > 0 /\ DOMAIN selectorCache = {}

\* C13: clearCache() leaves no entry and an empty LRU list, and the call
\* that follows it is a miss that creates a fresh entry.
ClearCacheEmpties ==
    [][ /\ (last'.op = "clearCache" /\ ~CallStep) =>
              (DOMAIN selectorCache' = {} /\ keyUsage' = <<>>)
        /\ (last.op = "clearCache" /\ CallStep) =>
              /\ ~last'.hit /\ ~last'.expired /\ last'.evicted = ""
              /\ totalMisses' = totalMisses + 1
              /\ DOMAIN selectorCache' = {last'.key}
              /\ keyUsage' = <<last'.key>>
              /\ selectorCache'[last'.key].hits = 0
              /\ selectorCache'[last'.key].misses = 1
              /\ selectorCache'[last'.key].created = now
              /\ selectorCache'[last'.key].lastUsed = now ]_vars

\* clearCache() has just emptied a store that held entries.
ClearCacheWitness ==
    last.op = "clearCache" /\ totalMisses > 0 /\ DOMAIN selectorCache = {}

\* C14: totalHits, totalMisses and totalExecutionTime never decrease: no
\* call, clearCache, invalidateCache, eviction or expiry lowers or resets
\* any of them.
CountersMonotone ==
    [][ /\ totalHits' >= totalHits
        /\ totalMisses' >= totalMisses
        /\ totalExecutionTime' >= totalExecutionTime ]_vars

\* The store has been cleared while all three counters are above zero.
CountersMonotoneWitness ==
    /\ last.op \in {"clearCache", "invalidateAll", "invalidate"}
    /\ totalHits > 0 /\ totalMisses > 0 /\ totalExecutionTime > 0
    /\ DOMAIN selectorCache = {}

AskedPage(params) == IF Len(params) >= 1 THEN params[1].n ELSE DefaultPage

AskedPageSize(params) == IF Len(params) >= 2 THEN params[2].n ELSE DefaultPageSize

PagesOf(n, pageSize) ==
    CHOOSE m \in 0..n : m * pageSize >= n /\ (m = 0 \/ (m - 1) * pageSize < n)

ItemsOfPage(elems, page, pageSize) ==
    SelectSeq(elems, LAMBDA item :
        \E i \in 1..Len(elems) : elems[i] = item /\ (i - 1) \div pageSize = page)

PaginationCall == last.op = "call" /\ kind = "pagination" /\ last.outcome = "value"

PastLastPageEmpty ==
    (PaginationCall /\ ItemsOf(last.state) # <<>>
        /\ AskedPage(last.params) >
               PagesOf(Len(ItemsOf(last.state)), AskedPageSize(last.params)) - 1) =>
        /\ Len(last.result.items.elems) = 0
        /\ last.result.pagination.currentPage =
               PagesOf(Len(ItemsOf(last.state)), AskedPageSize(last.params)) - 1
        /\ ~last.result.pagination.hasNextPage

(***************************************************************************)
(* One sequence is a rearrangement of the other.                           *)
(***************************************************************************)
IsPermutation(a, b) ==
    /\ Len(a) = Len(b)
    /\ \A x \in {a[i] : i \in 1..Len(a)} \cup {b[i] : i \in 1..Len(b)} :
          Cardinality({i \in 1..Len(a) : a[i] = x})
              = Cardinality({i \in 1..Len(b) : b[i] = x})

RECURSIVE DifferFrom(_, _, _)
DifferFrom(i, a, b) ==
    IF i > Len(a) THEN <<>>
    ELSE (IF a[i] # b[i] THEN <<i - 1>> ELSE <<>>) \o DifferFrom(i + 1, a, b)

ChangedSincePreviousRun ==
    (/\ tracked.trackDependencyChanges
     /\ last.op = "trackedCall" /\ last.ran /\ tracked.runs > 1) =>
        /\ tracked.lastDeps = dependencies(last.state)
        /\ tracked.lastDeps # tracked.previousDeps
        /\ TrackedStats.lastChangedDependencies =
              DifferFrom(1, tracked.lastDeps, tracked.previousDeps)

\* C21: executionCount equals the number of times the combiner ran, a run
\* other than the first happens only when some dependency value changed,
\* and after such a run lastChangedDependencies lists, ascending, the
\* indices whose value differs from the one at the previous run.
TrackedStatistics ==
    /\ TrackedStats.executionCount = tracked.runs
    /\ ChangedSincePreviousRun

\* C21, with the count taken since the latest resetStats(): executionCount
\* equals the number of times the combiner ran since the selector was
\* created or its statistics were last reset; the rest as stated.
TrackedStatisticsSinceReset ==
    /\ TrackedStats.executionCount = tracked.runsSinceReset
    /\ ChangedSincePreviousRun

\* Two runs, the second with only the count changed: [1], executionCount 2.
TrackedWitness ==
    /\ tracked.trackDependencyChanges
    /\ last.op = "trackedCall" /\ last.ran /\ last.state = "t2"
    /\ TrackedStats.executionCount = 2
    /\ TrackedStats.lastChangedDependencies = <<1>>

(***************************************************************************)
(* Two (function, Map) tuples the encoder is said not to tell apart: the   *)
(* functions have the same name and the same first SrcPrefixLen characters *)
(* of source, the Maps the same entries in the same order.                 *)
(***************************************************************************)
SamePrefix(a, b) ==
    \A i \in 1..SrcPrefixLen :
        /\ (i <= Len(a)) = (i <= Len(b))
        /\ i <= Len(a) => a[i] = b[i]

Resembles(p, q) ==
    /\ p[1].s = q[1].s
    /\ SamePrefix(p[1].src, q[1].src)
    /\ p[2] = q[2]

\* C22: a call with the same function and the same Map as a live entry's,
\* or with a function of the same name and first 100 source characters, has
\* that entry's key and is a hit.
FunctionAndMapKeys ==
    [][ CallStep =>
        \A k \in DOMAIN selectorCache :
            Resembles(selectorCache[k].params, last'.params) =>
                /\ last'.key = k
                /\ last'.hit
                /\ totalHits' = totalHits + 1 ]_vars

\* testFn and testMap twice: one hit; and a call served by the entry of a
\* function that differs after its first 100 characters.
FunctionAndMapWitness ==
    /\ last.op = "call" /\ last.hit /\ totalHits = 2
    /\ last.params = << FnV("longFn", LongSource("b")), testMap >>
    /\ selectorCache[last.key].params = << FnV("longFn", LongSource("a")), testMap >>
    /\ \E k \in DOMAIN selectorCache :
          selectorCache[k].params[1].s = "testFn" /\ selectorCache[k].hits = 1

(***************************************************************************)
(* The lookup of a call, told apart by what the store held before it.      *)
(***************************************************************************)
Stale(entry) == expireAfter > 0 /\ now - entry.created > expireAfter

MovedToTail(key) ==
    /\ keyUsage' # <<>>
    /\ keyUsage'[Len(keyUsage')] = key
    /\ SelectSeq(keyUsage', LAMBDA k : k # key) = SelectSeq(keyUsage, LAMBDA k : k # key)

OthersUnchanged(key) ==
    \A k \in (DOMAIN selectorCache \cap DOMAIN selectorCache') \ {key} :
        selectorCache'[k] = selectorCache[k]

FreshEntry(entry) ==
    /\ entry.created = now /\ entry.lastUsed = now
    /\ entry.hits = 0 /\ entry.misses = 1

\* C23: a call whose key is present and not expired adds 1 to the entry's
\* hits and to totalHits, sets lastUsed to the time of the call, moves the
\* key to the tail of the LRU order keeping the order of the other keys, and
\* leaves totalMisses, created, misses, the key set and the other entries.
HitStep ==
    [][ ( /\ CallStep
          /\ last'.key \in DOMAIN selectorCache
          /\ ~Stale(selectorCache[last'.key]) )
        => ( /\ last'.hit
             /\ selectorCache'[last'.key].hits = selectorCache[last'.key].hits + 1
             /\ totalHits' = totalHits + 1
             /\ selectorCache'[last'.key].lastUsed = now
             /\ MovedToTail(last'.key)
             /\ Len(keyUsage') = Len(keyUsage)
             /\ totalMisses' = totalMisses
             /\ selectorCache'[last'.key].created = selectorCache[last'.key].created
             /\ selectorCache'[last'.key].misses = selectorCache[last'.key].misses
             /\ DOMAIN selectorCache' = DOMAIN selectorCache
             /\ OthersUnchanged(last'.key) ) ]_vars

\* A hit, later than its creation, on the oldest of three keys.
HitStepWitness ==
    /\ last.op = "call" /\ last.hit /\ last.key = "[1]"
    /\ keyUsage = << "[2]", "[null]", "[1]" >>
    /\ selectorCache["[1]"].lastUsed > selectorCache["[1]"].created
    /\ selectorCache["[1]"].hits = 1

\* C24: a call whose key is absent inserts an entry with lastUsed = created
\* = the time of the call, hits 0 and misses 1, appends the key to the LRU
\* order, adds 1 to totalMisses and leaves totalHits; it evicts the head of
\* the LRU order, another key, exactly when the store held maxSize entries.
MissStep ==
    [][ ( CallStep /\ last'.key \notin DOMAIN selectorCache )
        => ( /\ ~last'.hit /\ ~last'.expired
             /\ last'.key \in DOMAIN selectorCache'
             /\ FreshEntry(selectorCache'[last'.key])
             /\ totalMisses' = totalMisses + 1
             /\ totalHits' = totalHits
             /\ OthersUnchanged(last'.key)
             /\ IF Cardinality(DOMAIN selectorCache) = maxSize
                THEN /\ Head(keyUsage) # last'.key
                     /\ Head(keyUsage) \in DOMAIN selectorCache
                     /\ last'.evicted = Head(keyUsage)
                     /\ DOMAIN selectorCache' =
                           (DOMAIN selectorCache \ {Head(keyUsage)}) \cup {last'.key}
                     /\ keyUsage' = Append(Tail(keyUsage), last'.key)
                ELSE /\ last'.evicted = ""
                     /\ DOMAIN selectorCache' = DOMAIN selectorCache \cup {last'.key}
                     /\ keyUsage' = Append(keyUsage, last'.key) ) ]_vars

\* The third key on two places: the first one, used again since, stays and
\* the second one is gone.
MissStepWitness ==
    /\ maxSize = 2 /\ last.op = "call" /\ ~last.hit /\ ~last.expired
    /\ last.evicted = "[2]" /\ last.key = "[null]"
    /\ keyUsage = << "[1]", "[null]" >>
    /\ DOMAIN selectorCache = { "[1]", "[null]" }
    /\ selectorCache["[1]"].hits = 1

\* C25: a call at time T on a key whose entry has T - created > expireAfter
\* replaces the entry by a fresh one (created = lastUsed = T, hits 0,
\* misses 1), counts as a miss, puts the key at the tail of the LRU order,
\* leaves the size of the store and evicts no other entry.
ExpiryReplacement ==
    [][ ( /\ CallStep
          /\ last'.key \in DOMAIN selectorCache
          /\ Stale(selectorCache[last'.key]) )
        => ( /\ last'.expired /\ ~last'.hit
             /\ FreshEntry(selectorCache'[last'.key])
             /\ totalMisses' = totalMisses + 1
             /\ totalHits' = totalHits
             /\ MovedToTail(last'.key)
             /\ Len(keyUsage') = Len(keyUsage)
             /\ DOMAIN selectorCache' = DOMAIN selectorCache
             /\ last'.evicted = ""
             /\ OthersUnchanged(last'.key) ) ]_vars

\* A stale entry that had been hit is replaced on a full store, ahead of a
\* key that was used after it.
ExpiryReplacementWitness ==
    /\ last.op = "call" /\ last.expired /\ last.key = "[1]"
    /\ maxSize = 2 /\ keyUsage = << "[2]", "[1]" >>
    /\ selectorCache["[1]"].created = MaxTime
    /\ selectorCache["[1]"].hits = 0
    /\ selectorCache["[2]"].created = 0
    /\ totalMisses = 3

(***************************************************************************)
(* A key JSON.parse turns back into an array of arguments.                 *)
(***************************************************************************)
ParsesToTuple(key) == JSONParse(key).ok /\ JSONParse(key).doc.arr

\* C26: invalidateCache(p) never removes a key that cannot be parsed back
\* into an argument tuple, whatever p is, and does not count it in the
\* number it returns.
UndecodableKeysSurvive ==
    [][ (last'.op = "invalidate" /\ ~CallStep) =>
        /\ \A k \in DOMAIN selectorCache :
              ~ParsesToTuple(k) =>
                 /\ k \in DOMAIN selectorCache'
                 /\ selectorCache'[k] = selectorCache[k]
                 /\ \E i \in 1..Len(keyUsage') : keyUsage'[i] = k
        /\ last'.removed <=
              Cardinality({ k \in DOMAIN selectorCache : ParsesToTuple(k) }) ]_vars

(***************************************************************************)
(* The fallback key as it is described: an object gives its key names in   *)
(* sorted order.  KeyNames lists the names of the model in that order.     *)
(***************************************************************************)
KeyNames == <<"a", "b">>

SortedKeyNames(ks) ==
    SelectSeq(KeyNames, LAMBDA name : \E i \in 1..Len(ks) : ks[i] = name)

SortedFallbackValue(v) ==
    CASE v.t = "null" -> "null"
      [] v.t = "undefined" -> "undefined"
      [] v.t = "function" -> "fn_" \o v.s
      [] v.t \in {"object", "circular"} -> "obj_" \o Join(SortedKeyNames(v.ks), "_")
      [] OTHER -> FallbackValue(v)

SameKeyNames(p, q) ==
    /\ Len(p) = Len(q)
    /\ \A i \in 1..Len(p) :
          IF p[i].t \in {"object", "circular"}
          THEN /\ q[i].t = p[i].t
               /\ { p[i].ks[j] : j \in 1..Len(p[i].ks) } = { q[i].ks[j] : j \in 1..Len(q[i].ks) }
          ELSE q[i] = p[i]

\* C27: a key made by the fallback encoder joins with "|" the elements'
\* texts, an object's being "obj_" and its key names in sorted order joined
\* by "_", so a call whose objects have the key names of a live entry's in
\* another order has that entry's key.
FallbackOrderIndependent ==
    (last.op = "call" /\ last.reports # <<>>) =>
        /\ last.key = Join([i \in 1..Len(last.params) |->
                               SortedFallbackValue(last.params[i])], "|")
        /\ \A k \in DOMAIN selectorCache :
              SameKeyNames(selectorCache[k].params, last.params) => k = last.key

(***************************************************************************)
(* The key of a Date argument as it is described: the marker and the       *)
(* ISO-8601 text.                                                          *)
(***************************************************************************)
MarkedDateKey(iso) == "[[" \o Quote("__Date") \o "," \o Quote(iso) \o "]]"

\* C28: the key of a Date argument holds the Date marker followed by the
\* ISO-8601 text, so no entry made for the string of that text has the key
\* of a call with the Date: the two occupy distinct entries.
DateKeysMarked ==
    (last.op = "call" /\ last.params[1].t = "date") =>
        /\ last.key = MarkedDateKey(last.params[1].s)
        /\ \A k \in DOMAIN selectorCache :
              selectorCache[k].params = <<Str(last.params[1].s)>> => k # last.key

(***************************************************************************)
(* The page a request is answered with: the asked page brought into        *)
(* 0 .. totalPages - 1, and 0 when there is no page at all.                *)
(***************************************************************************)
ClampedPage(page, totalPages) ==
    IF totalPages = 0 \/ page < 0 THEN 0
    ELSE IF page > totalPages - 1 THEN totalPages - 1
    ELSE page

PerformanceAccounting ==
    [][ (CallStep /\ last'.outcome = "value") =>
        IF trackPerformance
        THEN /\ totalExecutionTime' = totalExecutionTime + (now' - now)
             /\ selectorCache'[last'.key].executionTime =
                   (IF last'.hit THEN selectorCache[last'.key].executionTime ELSE 0)
                       + (now' - now)
        ELSE /\ totalExecutionTime' = 0
             /\ \A k \in DOMAIN selectorCache' : selectorCache'[k].executionTime = 0 ]_vars

CapacityPerKind ==
    CacheSize <= ( CASE kind = "path" -> 20
                     [] kind = "filter" -> 15
                     [] OTHER -> 10 )

\* The twenty-first distinct argument of a path selector has evicted the
\* first one.
CapacityPerKindWitness ==
    /\ kind = "path" /\ last.op = "call" /\ last.evicted = "[1]"
    /\ last.key = "[21]" /\ CacheSize = 20 /\ totalMisses = 21

\* C32: an operation on one of two factories (a selector call, clearCache,
\* invalidateCache) leaves the other factory's store, LRU order and
\* counters as they were.
FactoryIsolation ==
    [][ IF last'.op \in {"otherCall", "otherClearCache", "otherInvalidate"}
        THEN UNCHANGED <<selectorCache, keyUsage, totalHits, totalMisses,
                         totalExecutionTime>>
        ELSE /\ selectors'[1].selectorCache = selectors[1].selectorCache
             /\ selectors'[1].keyUsage = selectors[1].keyUsage
             /\ selectors'[1].totalHits = selectors[1].totalHits
             /\ selectors'[1].totalMisses = selectors[1].totalMisses ]_vars

\* The second factory has been cleared after two misses while the first
\* still holds the entry it has hit.
FactoryIsolationWitness ==
    /\ last.op = "otherClearCache"
    /\ DOMAIN selectorCache = {"[1]"} /\ totalHits = 1 /\ keyUsage = <<"[1]">>
    /\ selectors[1].totalMisses = 2 /\ DOMAIN selectors[1].selectorCache = {}

\* C34: every selector invocation, one whose wrapped selector throws
\* included, adds exactly 1 to totalHits + totalMisses, to one of the two,
\* and no other operation changes either: the sum is the number of
\* invocations since creation, whatever was cleared or invalidated between.
EveryInvocationCounted ==
    [][ IF last'.op = "call" /\ selectorCache' # selectorCache
        THEN /\ totalHits' + totalMisses' = totalHits + totalMisses + 1
             /\ totalHits' >= totalHits /\ totalMisses' >= totalMisses
        ELSE totalHits' = totalHits /\ totalMisses' = totalMisses ]_vars

\* The third invocation, a miss like the two before it and made after the
\* store was emptied, has thrown and is counted.
EveryInvocationWitness ==
    /\ last.op = "call" /\ last.outcome = "throw"
    /\ maxSize = 2 /\ expireAfter = 0
    /\ totalHits = 0 /\ totalMisses = 3 /\ CacheSize = 1

(***************************************************************************)
(* The sum of the hits of the live entries.                                *)
(***************************************************************************)
RECURSIVE SumHits(_)
SumHits(keys) ==
    IF keys = {} THEN 0
    ELSE LET k == CHOOSE x \in keys : TRUE
         IN  selectorCache[k].hits + SumHits(keys \ {k})

\* C35: every live entry has misses = 1, hits >= 0 and created <= lastUsed;
\* the hits of the live entries sum to at most totalHits and there are at
\* most totalMisses live entries.
EntryCounters ==
    /\ \A k \in DOMAIN selectorCache :
          /\ selectorCache[k].misses = 1
          /\ selectorCache[k].hits >= 0
          /\ selectorCache[k].created <= selectorCache[k].lastUsed
    /\ SumHits(DOMAIN selectorCache) <= totalHits
    /\ CacheSize <= totalMisses

\* An entry hit after its creation lives on while the entry of another hit
\* is gone.
EntryCountersWitness ==
    /\ \E k \in DOMAIN selectorCache :
          selectorCache[k].hits = 1 /\ selectorCache[k].created < selectorCache[k].lastUsed
    /\ SumHits(DOMAIN selectorCache) = 1 /\ totalHits = 2
    /\ CacheSize < totalMisses

\* C36: a call on a live key is a miss by expiry exactly when expireAfter
\* is set and more than expireAfter has passed since the entry's creation,
\* however recently the entry was used; a hit leaves created as it was; and
\* with expireAfter unset no call ever finds an entry expired.
ExpiryFromCreation ==
    [][ (CallStep /\ last'.key \in DOMAIN selectorCache) =>
        /\ last'.expired <=>
              (expireAfter > 0 /\ now - selectorCache[last'.key].created > expireAfter)
        /\ last'.hit <=> ~last'.expired
        /\ last'.hit =>
              /\ selectorCache'[last'.key].created = selectorCache[last'.key].created
              /\ selectorCache'[last'.key].lastUsed = now
        /\ expireAfter = 0 => ~last'.expired ]_vars

\* The only key of the factory, created at 0 and hit since, is found
\* expired at time MaxTime.
ExpiryFromCreationWitness ==
    /\ expireAfter = MaxExpire /\ last.op = "call" /\ last.expired
    /\ last.time = MaxTime
    /\ totalHits = 1 /\ totalMisses = 2 /\ CacheSize = 1

(***************************************************************************)
(* The throwing predicates applied to the arguments of an entry whose key  *)
(* decodes to them.                                                        *)
(***************************************************************************)
Decodable(params) == \A i \in 1..Len(params) : params[i].t \in {"number", "string"}

ThrowsOn(pred, params) ==
    Decodable(params) /\ (pred = "throws" \/ params[1] = Num(1))

MatchedBy(pred, params) ==
    Decodable(params) /\ pred = "throwsOnOne" /\ params[1] # Num(1)

\* C37: where the predicate of invalidateCache throws for an entry's
\* decoded arguments the entry is kept and not counted, and the other
\* entries are still tested and removed when they match.
ThrowingPredicateAbsorbed ==
    [][ (last'.op = "invalidate" /\ last'.pred \in ThrowingPredicates) =>
        /\ \A k \in DOMAIN selectorCache :
              ThrowsOn(last'.pred, selectorCache[k].params) =>
                 /\ k \in DOMAIN selectorCache'
                 /\ selectorCache'[k] = selectorCache[k]
        /\ DOMAIN selectorCache' =
              { k \in DOMAIN selectorCache :
                  ~MatchedBy(last'.pred, selectorCache[k].params) }
        /\ keyUsage' = SelectSeq(keyUsage, LAMBDA k : k \in DOMAIN selectorCache')
        /\ last'.removed =
              Cardinality({ k \in DOMAIN selectorCache :
                              MatchedBy(last'.pred, selectorCache[k].params) }) ]_vars

\* Entries for 1, 2 and 3: the predicate throws on 1, which stays, and
\* removes the two others.
ThrowingPredicateWitness ==
    /\ last.op = "invalidate" /\ last.pred = "throwsOnOne" /\ last.removed = 2
    /\ DOMAIN selectorCache = {"[1]"} /\ keyUsage = <<"[1]">>

(***************************************************************************)
(* EnvironmentService.collectEnvironmentData                               *)
(***************************************************************************)
PendingRuns == {r \in DOMAIN env.runs : env.runs[r] = "pending"}

\* C38: At most one collectFreshEnvironmentData run is in progress at any
\* time: while a run has not settled and the cache is not valid, a further
\* collectEnvironmentData call receives the in-flight promise instead of
\* starting another run.
SharedInFlightCollection == Cardinality(PendingRuns) <= 1

\* C39: No caller's promise rejects: a caller whose collection failed,
\* whether it started the collection or joined it, resolves to the fallback
\* device info, and the cache only ever holds the data of a fulfilled run.
CollectNeverRejects ==
    /\ \A c \in DOMAIN env.callers :
          /\ env.callers[c].promise # "rejected"
          /\ env.callers[c].pc = "done" /\ env.callers[c].run # 0
                 /\ env.runs[env.callers[c].run] = "rejected"
              => env.callers[c].value = getFallbackDeviceInfo
    /\ env.cache.present => env.runs[env.cache.data.run] = "fulfilled"

(***************************************************************************)
(* fetchWithRetry                                                          *)
(***************************************************************************)
FailedAttempts == {i \in DOMAIN retry.outcomes : retry.outcomes[i] # "ok"}

FetchWithRetryState ==
    /\ Len(retry.outcomes) <= retry.retries
    /\ \A i \in DOMAIN retry.outcomes :
          retry.outcomes[i] = "ok" => i = Len(retry.outcomes) /\ retry.pc = "returned"
    /\ retry.pc = "returned" =>
          retry.outcomes # <<>> /\ retry.outcomes[Len(retry.outcomes)] = "ok"
    /\ Len(retry.waits) = Cardinality({i \in FailedAttempts : i # retry.retries})
    /\ \A i \in DOMAIN retry.waits : retry.waits[i] = 1000 * 2^(i - 1)
    /\ retry.pc = "waiting" => Len(retry.waits) = retry.attempt
    /\ retry.pc = "thrown" /\ retry.retries >= 1 =>
          /\ Len(retry.outcomes) = retry.retries
          /\ retry.outcomes[retry.retries] # "ok"
          /\ retry.thrown = AttemptError(retry.outcomes[retry.retries])
    /\ retry.pc = "thrown" /\ retry.retries < 1 =>
          retry.outcomes = <<>> /\ retry.waits = <<>>

FetchTerminated == retry.pc \in {"returned", "thrown"}

====
